---- MODULE Spec2Model ----
(***************************************************************************)
(* A model of the Move-to-Yul generator                                    *)
(* (language/evm/move-to-yul/src/generator.rs): the struct layout engine,  *)
(* the code emitted for global storage operations executed on an EVM-like  *)
(* machine, and the demand-driven emission of Move and Yul functions.      *)
(***************************************************************************)
EXTENDS Integers, Sequences, FiniteSets, TLC

VARIABLES
    env_fields,     \* GlobalEnv: struct id -> field types in declaration order
    struct_layout,  \* Generator.struct_layout: struct id -> StructLayout (memo)
    modules,        \* GlobalEnv: the contract modules, each with its #[create]
                    \* and #[callable] functions in declaration order
    code,           \* the bytecode of each function: the functions it calls
                    \* (in order) and the builtins it calls
    yule_deps,      \* YulFunction::yule_deps of each builtin
    needed_move_functions,  \* Generator.needed_move_functions (a stack)
    done_move_functions,    \* Generator.done_move_functions
    needed_yul_functions,   \* Generator.needed_yul_functions
    blocks,         \* the code blocks written so far, the last one being
                    \* the current one
    pc,             \* where Generator::objects / Generator::contract stands
    mi,             \* index of the contract module being generated
    drained,        \* function translations done by the drain loop of the
                    \* current code block
    yul_calls,      \* invocations of need_yul_function made by the last
                    \* call_builtin_str
    push_log,       \* history: the pushes onto needed_move_functions of the
                    \* last step, each with whether the function was done
    memory,         \* EVM memory: byte address -> byte (absent: 0)
    storage,        \* EVM storage: word key -> 32 byte word (absent: 0)
    free_ptr,       \* the word at MEM_SIZE_LOC: the next free memory address
    linked_counter, \* the counters of NewLinkedStorageBase, per type hash
    last,           \* the last storage operation executed and its outcome
    live,           \* history: (type, address) -> seed of the value that the
                    \* last completed MoveTo/MoveFrom left published, or 0
    moves,          \* number of MoveTo operations executed
    yul_log,        \* history: the builtins requested by call_builtin_str in
                    \* the current code block, in the order of the requests
    errors,         \* the diagnostics reported through GlobalEnv::error
    type_sig_map,   \* Generator.type_sig_map: type hash -> type
    hashed,         \* history: the calls of type_hash, each with the contract
                    \* it was made in
    native,         \* a call of a native function of the standard library: its
                    \* arguments, how far it has run and its results
    target,         \* FunctionTarget of the function being translated: its
                    \* parameter, local and return counts and its bytecode
    borrowed_locals,\* Generator.borrowed_locals: local -> slot position
    emitted,        \* the Yul code written: the function that
                    \* Generator::function has written, or the migration code
                    \* of each storage operation generated
    run             \* an execution of the emitted function next to the
                    \* execution of its bytecode

layout_vars == <<env_fields, struct_layout>>
gen_vars == <<modules, code, yule_deps, needed_move_functions, done_move_functions,
              needed_yul_functions, blocks, pc, mi, drained, yul_calls, push_log>>
machine_vars == <<memory, storage, free_ptr, linked_counter, last, live, moves>>
aux_vars == <<yul_log, errors, type_sig_map, hashed, native>>
fun_vars == <<target, borrowed_locals, emitted, run>>
vars == <<layout_vars, gen_vars, machine_vars, aux_vars, fun_vars>>

----------------------------------------------------------------------------
(* Bounds *)

MaxFields == 3      \* longest field list of a struct drawn in InitLayout
MaxFuns == 3        \* number of Move functions of a program drawn in Init
MaxYul == 3         \* number of builtin (Yul) functions

----------------------------------------------------------------------------
(* Types *)

WORD_SIZE == 32

PrimKinds == {"bool", "u8", "u64", "u128", "address", "signer"}

Prim(k) == [kind |-> k, id |-> 0]
StructTy(s) == [kind |-> "struct", id |-> s]
VectorTy == [kind |-> "vector", id |-> 0]

is_struct(ty) == ty.kind = "struct"
is_vector(ty) == ty.kind = "vector"

\* (mutant) a pointer field counted as an 8 byte value
type_size_short_pointer(ty) ==
    CASE ty.kind \in {"bool", "u8"} -> 1
      [] ty.kind = "u64" -> 8
      [] ty.kind = "u128" -> 16
      [] ty.kind \in {"address", "signer"} -> 20
      [] ty.kind \in {"struct", "vector"} -> 8

\* Generator::type_size, for the types that may be struct fields
type_size(ty) ==
    CASE ty.kind \in {"bool", "u8"} -> 1
      [] ty.kind = "u64" -> 8
      [] ty.kind = "u128" -> 16
      [] ty.kind \in {"address", "signer"} -> 20
      [] ty.kind \in {"struct", "vector"} -> 32

----------------------------------------------------------------------------
(* Struct layout: Generator::get_or_compute_struct_layout *)

s_or_v(ty) == is_vector(ty) \/ is_struct(ty)

\* (mutant) the comparator with the size comparison the wrong way round
field_cmp_ascending(f1, f2) ==
    IF f1[2] < f2[2] THEN "Less"
    ELSE IF f2[2] < f1[2] THEN "Greater"
    ELSE IF s_or_v(f1[3]) /\ ~s_or_v(f2[3]) THEN "Less"
    ELSE IF s_or_v(f2[3]) /\ ~s_or_v(f1[3]) THEN "Greater"
    ELSE "Equal"

\* the comparator handed to sorted_by; a field is <<logical offset, size, type>>
field_cmp(f1, f2) ==
    IF f1[2] > f2[2] THEN "Less"
    ELSE IF f2[2] > f1[2] THEN "Greater"
    ELSE IF s_or_v(f1[3]) /\ ~s_or_v(f2[3]) THEN "Less"
    ELSE IF s_or_v(f2[3]) /\ ~s_or_v(f1[3]) THEN "Greater"
    ELSE "Equal"

\* insert x, which followed every element of the sorted s in the input, keeping
\* the order of equal elements (slice::sort_by is stable)
InsertStable(s, x) ==
    LET before == {i \in 1..Len(s) : field_cmp(x, s[i]) = "Less"}
        pos == IF before = {} THEN Len(s) + 1
               ELSE CHOOSE i \in before : \A j \in before : i <= j
    IN  SubSeq(s, 1, pos - 1) \o <<x>> \o SubSeq(s, pos, Len(s))

RECURSIVE sorted_by(_)
sorted_by(s) ==
    IF s = <<>> THEN <<>>
    ELSE InsertStable(sorted_by(SubSeq(s, 1, Len(s) - 1)), s[Len(s)])

\* the (offset, size, type) triples of a struct's fields, in declaration order
field_triples(fields) ==
    [i \in 1..Len(fields) |-> <<i - 1, type_size(fields[i]), fields[i]>>]

EmptyLayout == [size |-> 0, offsets |-> <<>>, field_order |-> <<>>, pointer_count |-> 0]

\* the accumulation loop over the ordered fields
RECURSIVE accumulate_layout(_, _, _)
accumulate_layout(ordered, k, result) ==
    IF k > Len(ordered) THEN result
    ELSE LET f == ordered[k]
         IN  accumulate_layout(ordered, k + 1,
                [size |-> result.size + f[2],
                 offsets |-> (f[1] :> <<result.size, f[3]>>) @@ result.offsets,
                 field_order |-> Append(result.field_order, f[1]),
                 pointer_count |-> result.pointer_count
                                     + (IF s_or_v(f[3]) THEN 1 ELSE 0)])

compute_struct_layout(fields) ==
    accumulate_layout(sorted_by(field_triples(fields)), 1, EmptyLayout)

NoLayout == [size |-> 0 - 1, offsets |-> <<>>, field_order |-> <<>>, pointer_count |-> 0]

get_or_compute_struct_layout(st) ==
    /\ st \in DOMAIN env_fields
    /\ struct_layout' =
         IF struct_layout[st] = NoLayout
         THEN [struct_layout EXCEPT ![st] = compute_struct_layout(env_fields[st])]
         ELSE struct_layout
    /\ UNCHANGED env_fields
    /\ UNCHANGED gen_vars
    /\ UNCHANGED machine_vars
    /\ UNCHANGED fun_vars
    /\ UNCHANGED aux_vars

\* no function being translated
FunIdle ==
    /\ target = <<>>
    /\ borrowed_locals = <<>>
    /\ emitted = <<>>
    /\ run = <<>>

\* no builtin requested, no diagnostic reported, no type hashed
AuxIdle ==
    /\ yul_log = <<>>
    /\ errors = <<>>
    /\ type_sig_map = <<>>
    /\ hashed = <<>>
    /\ native = <<>>

\* the machine part of the state when no emitted code is executed
MachineIdle ==
    /\ memory = <<>>
    /\ storage = <<>>
    /\ free_ptr = 0
    /\ linked_counter = <<>>
    /\ last = [op |-> "none"]
    /\ live = <<>>
    /\ moves = 0

\* the generator part of the state when no contract is being generated
GenIdle ==
    /\ modules = <<>>
    /\ code = <<>>
    /\ yule_deps = <<>>
    /\ needed_move_functions = <<>>
    /\ done_move_functions = {}
    /\ needed_yul_functions = {}
    /\ blocks = <<>>
    /\ pc = "idle"
    /\ mi = 0
    /\ drained = 0
    /\ yul_calls = 0
    /\ push_log = <<>>

----------------------------------------------------------------------------
(* Specification of the layout engine: every field list up to MaxFields *)

FieldTypes == {Prim(k) : k \in PrimKinds} \cup {StructTy(2), VectorTy}

RECURSIVE SeqsUpTo(_, _)
SeqsUpTo(S, n) ==
    IF n = 0 THEN {<<>>}
    ELSE LET shorter == SeqsUpTo(S, n - 1)
         IN  shorter \cup {Append(s, x) : s \in {t \in shorter : Len(t) = n - 1}, x \in S}

InitLayout ==
    /\ env_fields \in {(1 :> fs) @@ (2 :> <<Prim("u64")>>) : fs \in SeqsUpTo(FieldTypes, MaxFields)}
    /\ struct_layout = [s \in {1, 2} |-> NoLayout]
    /\ GenIdle
    /\ MachineIdle
    /\ AuxIdle
    /\ FunIdle

NextLayout == \E st \in {1, 2} : get_or_compute_struct_layout(st)

SpecLayout == InitLayout /\ [][NextLayout]_vars

----------------------------------------------------------------------------
(* Builtin (Yul) functions: Generator::call_builtin_str, need_yul_function *)

\* (mutant) the elements of a set of numbers in descending order
SortedSeq_descending(S) ==
    [i \in 1..Cardinality(S) |-> CHOOSE x \in S : Cardinality({y \in S : y > x}) = i - 1]

RECURSIVE SortedSeq(_)
\* the elements of a set of numbers in ascending order (BTreeSet iteration)
SortedSeq(S) ==
    IF S = {} THEN <<>>
    ELSE LET m == CHOOSE x \in S : \A y \in S : x <= y
         IN  <<m>> \o SortedSeq(S \ {m})

\* (mutant) need_yul_function without the recursion into the dependencies
need_yul_function_shallow(st, y) ==
    [needed |-> st.needed \cup {y}, calls |-> st.calls + 1]

RECURSIVE need_yul_function(_, _)
RECURSIVE need_yul_deps(_, _, _)

\* st = [needed: the set needed_yul_functions, calls: invocations so far]
need_yul_function(st, y) ==
    IF y \in st.needed
    THEN [st EXCEPT !.calls = @ + 1]
    ELSE need_yul_deps([needed |-> st.needed \cup {y}, calls |-> st.calls + 1],
                       SortedSeq(yule_deps[y]), 1)

\* the loop `for dep in yul_fun.yule_deps()` of need_yul_function
need_yul_deps(st, deps, k) ==
    IF k > Len(deps) THEN st
    ELSE need_yul_deps(need_yul_function(st, deps[k]), deps, k + 1)

\* the effect of call_builtin_str on needed_yul_functions
call_builtin_str(needed, y) ==
    LET st == need_yul_function([needed |-> needed, calls |-> 0], y)
    IN  [st EXCEPT !.needed = @ \cup yule_deps[y]]

----------------------------------------------------------------------------
(* Function generation: Generator::function, move_call *)

\* (mutant) move_call pushing the callee whether or not it is done
move_call_always_push(g, h) ==
    [g EXCEPT !.blk.calls = @ \cup {h}, !.needed = Append(@, h),
              !.log = Append(@, [fun |-> h, done |-> h \in g.done])]

\* g = [needed, done, yul, blk, log]: the generator state a translation works on
move_call(g, h) ==
    [g EXCEPT !.blk.calls = @ \cup {h},
              !.needed = IF h \notin g.done THEN Append(@, h) ELSE @,
              !.log = IF h \notin g.done
                      THEN Append(@, [fun |-> h, done |-> h \in g.done]) ELSE @]

RECURSIVE translate_calls(_, _, _)
\* the Call instructions of a function body, in order
translate_calls(g, callees, k) ==
    IF k > Len(callees) THEN g
    ELSE translate_calls(move_call(g, callees[k]), callees, k + 1)

RECURSIVE translate_builtins(_, _, _)
\* the instructions of a function body that call a builtin
translate_builtins(g, ys, k) ==
    IF k > Len(ys) THEN g
    ELSE translate_builtins(
            [g EXCEPT !.yul = call_builtin_str(g.yul, ys[k]).needed], ys, k + 1)

\* (mutant) function() forgetting to record the function as done
function_not_done(g, f) ==
    translate_builtins(
        translate_calls([g EXCEPT !.blk.defs = Append(@, f)], code[f].calls, 1),
        SortedSeq(code[f].builtins), 1)

function(g, f) ==
    LET g1 == [g EXCEPT !.done = @ \cup {f}, !.blk.defs = Append(@, f)]
    IN  translate_builtins(translate_calls(g1, code[f].calls, 1),
                           SortedSeq(code[f].builtins), 1)

RECURSIVE functions(_, _, _)
\* function() for each of fs in order
functions(g, fs, k) ==
    IF k > Len(fs) THEN g ELSE functions(function(g, fs[k]), fs, k + 1)

----------------------------------------------------------------------------
(* Object generation: Generator::objects, contract, begin/end_code_block *)

Range(s) == {s[i] : i \in 1..Len(s)}

NewBlock(kind) == [kind |-> kind, module |-> mi, defs |-> <<>>, calls |-> {},
                   yul_defs |-> <<>>, entries |-> {}]

CurBlock == blocks[Len(blocks)]

GenState == [needed |-> needed_move_functions, done |-> done_move_functions,
             yul |-> needed_yul_functions, blk |-> CurBlock, log |-> <<>>]

\* write a generator state back to the variables
Commit(g) ==
    /\ needed_move_functions' = g.needed
    /\ done_move_functions' = g.done
    /\ needed_yul_functions' = g.yul
    /\ blocks' = [blocks EXCEPT ![Len(blocks)] = g.blk]
    /\ push_log' = g.log

\* Generator::objects choosing the next contract module, Generator::contract
\* initialising the contract specific state
contract ==
    /\ pc = "objects"
    /\ IF mi < Len(modules)
       THEN mi' = mi + 1 /\ pc' = "begin_deploy"
       ELSE mi' = mi /\ pc' = "done"
    /\ push_log' = <<>>
    /\ UNCHANGED <<modules, code, yule_deps, needed_move_functions, done_move_functions,
                   needed_yul_functions, blocks, drained, yul_calls>>
    /\ UNCHANGED layout_vars
    /\ UNCHANGED machine_vars
    /\ UNCHANGED fun_vars
    /\ UNCHANGED aux_vars

\* begin_code_block: the two assertions, a failing one ends the generator
begin_code_block ==
    /\ pc \in {"begin_deploy", "begin_runtime"}
    /\ IF needed_move_functions = <<>> /\ needed_yul_functions = {}
       THEN /\ blocks' = Append(blocks,
                    NewBlock(IF pc = "begin_deploy" THEN "deploy" ELSE "runtime"))
            /\ pc' = IF pc = "begin_deploy" THEN "creator" ELSE "callables"
       ELSE /\ blocks' = blocks
            /\ pc' = "panic"
    /\ drained' = 0
    /\ push_log' = <<>>
    /\ UNCHANGED <<modules, code, yule_deps, needed_move_functions, done_move_functions,
                   needed_yul_functions, mi, yul_calls>>
    /\ UNCHANGED layout_vars
    /\ UNCHANGED machine_vars
    /\ UNCHANGED fun_vars
    /\ UNCHANGED aux_vars

\* (mutant) the diagnostic only for exactly two #[create] functions
multiple_create_exactly_two(creators) ==
    IF Len(creators) = 2
    THEN <<[loc |-> <<mi, creators[2]>>, msg |-> "multiple #[create] functions"]>>
    ELSE <<>>

\* optional_creator: the diagnostic at the second #[create] function when
\* there is more than one
multiple_create(creators) ==
    IF Len(creators) > 1
    THEN <<[loc |-> <<mi, creators[2]>>, msg |-> "multiple #[create] functions"]>>
    ELSE <<>>

\* optional_creator: the last #[create] function is translated
optional_creator ==
    /\ pc = "creator"
    /\ LET creators == modules[mi].creators
       IN  /\ errors' = errors \o multiple_create(creators)
           /\ IF creators # <<>>
              THEN LET c == creators[Len(creators)]
                   IN  Commit(function([GenState EXCEPT !.blk.entries = {c}], c))
              ELSE Commit(GenState)
    /\ pc' = "end_deploy"
    /\ UNCHANGED <<modules, code, yule_deps, mi, drained, yul_calls>>
    /\ UNCHANGED layout_vars
    /\ UNCHANGED machine_vars
    /\ UNCHANGED fun_vars
    /\ UNCHANGED <<yul_log, type_sig_map, hashed, native>>

\* callable_functions: a dummy call of every callable, then their translation
callable_functions ==
    /\ pc = "callables"
    /\ LET callables == modules[mi].callables
           g == [GenState EXCEPT !.blk.calls = @ \cup Range(callables),
                                 !.blk.entries = Range(callables)]
       IN  Commit(functions(g, callables, 1))
    /\ pc' = "end_runtime"
    /\ UNCHANGED <<modules, code, yule_deps, mi, drained, yul_calls>>
    /\ UNCHANGED layout_vars
    /\ UNCHANGED machine_vars
    /\ UNCHANGED fun_vars
    /\ UNCHANGED aux_vars

\* the body of the drain loop of end_code_block for the popped function f
drain(g, f) == IF f \notin g.done THEN function(g, f) ELSE g

\* end_code_block: one iteration of `while let Some(fun_id) = ...pop()`
end_code_block_drain ==
    /\ pc \in {"end_deploy", "end_runtime"}
    /\ needed_move_functions # <<>>
    /\ LET n == Len(needed_move_functions)
           f == needed_move_functions[n]
           g == [GenState EXCEPT !.needed = SubSeq(needed_move_functions, 1, n - 1)]
           g2 == drain(g, f)
       IN  /\ Commit(g2)
           /\ drained' = drained + (Len(g2.blk.defs) - Len(g.blk.defs))
    /\ UNCHANGED <<modules, code, yule_deps, pc, mi, yul_calls>>
    /\ UNCHANGED layout_vars
    /\ UNCHANGED machine_vars
    /\ UNCHANGED fun_vars
    /\ UNCHANGED aux_vars

\* end_code_block after the loop: the builtin definitions, in the order of the
\* BTreeSet, and the end of the block
end_code_block_emit ==
    /\ pc \in {"end_deploy", "end_runtime"}
    /\ needed_move_functions = <<>>
    /\ blocks' = [blocks EXCEPT ![Len(blocks)].yul_defs = SortedSeq(needed_yul_functions)]
    /\ pc' = IF pc = "end_deploy" THEN "begin_runtime" ELSE "objects"
    /\ push_log' = <<>>
    /\ UNCHANGED <<modules, code, yule_deps, needed_move_functions, done_move_functions,
                   needed_yul_functions, mi, drained, yul_calls>>
    /\ UNCHANGED layout_vars
    /\ UNCHANGED machine_vars
    /\ UNCHANGED fun_vars
    /\ UNCHANGED aux_vars


----------------------------------------------------------------------------
(* Specification of the generator: every program over MaxFuns functions *)

Funs == 1..MaxFuns
YulFuns == 1..MaxYul

Module(creators, callables) == [creators |-> creators, callables |-> callables]

\* the contract modules: functions 1 and 2 carry the attributes, the other
\* functions are plain functions
ModuleLists ==
    { <<Module(<<1>>, <<2>>)>>,
      <<Module(<<>>, <<1, 2>>)>>,
      <<Module(<<1, 2>>, <<>>)>>,
      <<Module(<<>>, <<1>>), Module(<<>>, <<2>>)>> }

\* a function body: calls of at most two functions, and possibly a call of
\* builtin 1
Bodies ==
    [calls : {c \in SeqsUpTo(Funs, 2) : \A i \in 1..Len(c) : \A j \in 1..Len(c) :
                                           i < j => c[i] < c[j]},
     builtins : {{}, {1}}]

\* the functions reachable from a set of functions through calls
RECURSIVE ReachFrom(_, _)
ReachFrom(prog, S) ==
    LET next == S \cup UNION {Range(prog[f].calls) : f \in S}
    IN  IF next = S THEN S ELSE ReachFrom(prog, next)

Entries(ms) == UNION {Range(ms[i].creators) \cup Range(ms[i].callables) : i \in 1..Len(ms)}

Init ==
    /\ modules \in ModuleLists
    /\ code \in {p \in [Funs -> Bodies] :
                    /\ \A f \in Funs \ ReachFrom(p, Entries(modules)) :
                           p[f] = [calls |-> <<>>, builtins |-> {}]
                    /\ {f \in Funs : p[f].builtins # {}} \in {{}, {1}, {MaxFuns}}}
    /\ yule_deps = [y \in YulFuns |-> IF y < MaxYul THEN {y + 1} ELSE {}]
    /\ needed_move_functions = <<>>
    /\ done_move_functions = {}
    /\ needed_yul_functions = {}
    /\ blocks = <<>>
    /\ pc = "objects"
    /\ mi = 0
    /\ drained = 0
    /\ yul_calls = 0
    /\ push_log = <<>>
    /\ env_fields = <<>>
    /\ struct_layout = <<>>
    /\ MachineIdle
    /\ AuxIdle
    /\ FunIdle

Next ==
    \/ contract
    \/ begin_code_block
    \/ optional_creator
    \/ callable_functions
    \/ end_code_block_drain
    \/ end_code_block_emit

Spec == Init /\ [][Next]_vars

\* the sequences of distinct functions tagged #[create], in declaration order
CreatorLists ==
    {c \in SeqsUpTo(Funs, MaxFuns) : \A i \in 1..Len(c) : \A j \in 1..Len(c) :
                                        i # j => c[i] # c[j]}

\* one or two contract modules with any #[create] functions, the first one
\* possibly with a callable function
CreateModuleLists ==
    {<<Module(c, cb)>> : c \in CreatorLists,
                         cb \in {<<>>} \cup {<<f>> : f \in Funs}}
    \cup {<<Module(c1, <<>>), Module(c2, <<>>)>> : c1 \in CreatorLists, c2 \in CreatorLists}

\* the generator started on such modules, every function but the last
\* calling the next one
InitCreate ==
    /\ modules \in {ms \in CreateModuleLists :
                        \A i \in 1..Len(ms) :
                            Range(ms[i].callables) \cap Range(ms[i].creators) = {}}
    /\ code = [f \in Funs |-> [calls |-> IF f < MaxFuns THEN <<f + 1>> ELSE <<>>,
                                builtins |-> {}]]
    /\ yule_deps = [y \in YulFuns |-> {}]
    /\ needed_move_functions = <<>>
    /\ done_move_functions = {}
    /\ needed_yul_functions = {}
    /\ blocks = <<>>
    /\ pc = "objects"
    /\ mi = 0
    /\ drained = 0
    /\ yul_calls = 0
    /\ push_log = <<>>
    /\ env_fields = <<>>
    /\ struct_layout = <<>>
    /\ MachineIdle
    /\ AuxIdle
    /\ FunIdle

SpecCreate == InitCreate /\ [][Next]_vars


----------------------------------------------------------------------------
(* Specification of the builtin closure: every dependency relation over      *)
(* MaxYul builtins in which a builtin has at most two dependencies, and     *)
(* every order of call_builtin_str requests within one code block           *)

\* a call_builtin_str made while a code block is generated
yul_call_builtin(y) ==
    /\ pc = "yul_block"
    /\ LET st == call_builtin_str(needed_yul_functions, y)
       IN  /\ needed_yul_functions' = st.needed
           /\ yul_calls' = st.calls
    /\ yul_log' = IF \E k \in 1..Len(yul_log) : yul_log[k] = y THEN yul_log
                  ELSE Append(yul_log, y)
    /\ UNCHANGED <<modules, code, yule_deps, needed_move_functions, done_move_functions,
                   blocks, pc, mi, drained, push_log>>
    /\ UNCHANGED layout_vars
    /\ UNCHANGED machine_vars
    /\ UNCHANGED fun_vars
    /\ UNCHANGED <<errors, type_sig_map, hashed, native>>

\* end_code_block emitting the builtin definitions
yul_end_code_block ==
    /\ pc = "yul_block"
    /\ blocks' = <<[NewBlock("runtime") EXCEPT !.yul_defs = SortedSeq(needed_yul_functions)]>>
    /\ pc' = "yul_emitted"
    /\ UNCHANGED <<modules, code, yule_deps, needed_move_functions, done_move_functions,
                   needed_yul_functions, mi, drained, yul_calls, push_log>>
    /\ UNCHANGED layout_vars
    /\ UNCHANGED machine_vars
    /\ UNCHANGED fun_vars
    /\ UNCHANGED aux_vars

InitYul ==
    /\ yule_deps \in [YulFuns -> {d \in SUBSET YulFuns : Cardinality(d) <= 2}]
    /\ modules = <<>>
    /\ code = <<>>
    /\ needed_move_functions = <<>>
    /\ done_move_functions = {}
    /\ needed_yul_functions = {}
    /\ blocks = <<>>
    /\ pc = "yul_block"
    /\ mi = 0
    /\ drained = 0
    /\ yul_calls = 0
    /\ push_log = <<>>
    /\ env_fields = <<>>
    /\ struct_layout = <<>>
    /\ MachineIdle
    /\ AuxIdle
    /\ FunIdle

NextYul ==
    \/ \E y \in YulFuns : yul_call_builtin(y)
    \/ yul_end_code_block

SpecYul == InitYul /\ [][NextYul]_vars


----------------------------------------------------------------------------
(* The machine the emitted code runs on.  A word is a sequence of 32 bytes, *)
(* most significant byte first, as the EVM numbers the bytes of memory.     *)

ZeroWord == [i \in 1..WORD_SIZE |-> 0]

\* the word holding the number n < 2^24
WordOf(n) ==
    [i \in 1..WORD_SIZE |->
        CASE i = WORD_SIZE -> n % 256
          [] i = WORD_SIZE - 1 -> (n \div 256) % 256
          [] i = WORD_SIZE - 2 -> (n \div 65536) % 256
          [] OTHER -> 0]

\* the number held by a word whose upper bytes are zero
ValOf(w) == w[WORD_SIZE - 2] * 65536 + w[WORD_SIZE - 1] * 256 + w[WORD_SIZE]

\* Yul: not(x) is the bitwise complement of the 256 bit word x
yul_not(w) == [i \in 1..WORD_SIZE |-> 255 - w[i]]

\* Yul: `if c { .. }` runs its body when c is not zero
yul_if(w) == w # ZeroWord

Rd(mem, a) == IF a \in DOMAIN mem THEN mem[a] ELSE 0

mload(mem, p) == [i \in 1..WORD_SIZE |-> Rd(mem, p + i - 1)]

\* write the bytes bs to memory from address p on
write_bytes(mem, p, bs) ==
    [a \in (DOMAIN mem) \cup (p..(p + Len(bs) - 1)) |->
        IF a \in p..(p + Len(bs) - 1) THEN bs[a - p + 1] ELSE mem[a]]

mstore(mem, p, w) == write_bytes(mem, p, w)

sload(sto, key) == IF key \in DOMAIN sto THEN sto[key] ELSE ZeroWord

sstore(sto, key, w) == (key :> w) @@ sto

\* the runtime's builtins (YulFunction::*), on byte offsets into storage
AlignedStorageStore(sto, offs, w) == sstore(sto, offs \div WORD_SIZE, w)

AlignedStorageLoad(sto, offs) == sload(sto, offs \div WORD_SIZE)

StorageLoadU8(sto, offs) == sload(sto, offs \div WORD_SIZE)[(offs % WORD_SIZE) + 1]

StorageStoreU8(sto, offs, v) ==
    sstore(sto, offs \div WORD_SIZE,
           [sload(sto, offs \div WORD_SIZE) EXCEPT ![(offs % WORD_SIZE) + 1] = v % 256])

\* MemoryStoreU8, MemoryStoreU64, MemoryStoreU128, MemoryStoreU256: the value,
\* given as the bytes of its size, is written at p
MemoryStore(mem, p, bs) == write_bytes(mem, p, bs)

\* the memory the contract reserves before its arena
USED_MEM == 32

\* arena allocation, padded to words; the machine is [mem, sto, free, linked]
Malloc(M, size) ==
    [M |-> [M EXCEPT !.free = @ + WORD_SIZE * ((size + WORD_SIZE - 1) \div WORD_SIZE)],
     offs |-> M.free]

\* a nop in the runtime (arena style allocation)
Free(M, ptr, size) == M

RESOURCE_STORAGE_CATEGORY == 0
LINKED_STORAGE_CATEGORY == 1
RESOURCE_EXISTS_FLAG_SIZE == 32

\* the storage regions of (category, type hash, instance) are disjoint
HashSpace == 4
InstanceSpace == 8
RegionSize == 128

MakeTypeStorageBase(category, hash, instance) ==
    ((category * HashSpace + hash) * InstanceSpace + instance) * RegionSize

\* a fresh region for linked data of the type, counted per type hash
NewLinkedStorageBase(M, hash) ==
    LET handle == IF hash \in DOMAIN M.linked THEN M.linked[hash] ELSE 0
    IN  [M |-> [M EXCEPT !.linked = (hash :> (handle + 1)) @@ @],
         offs |-> MakeTypeStorageBase(LINKED_STORAGE_CATEGORY, hash, handle)]

\* the first four bytes of the Keccak digest of the mangled type: they differ
\* for the struct types 1, 2 and 3 of the storage environments, and the types
\* 4 and 5 have the digest of type 1
Keccak4 == (1 :> 3) @@ (2 :> 1) @@ (3 :> 2) @@ (4 :> 3) @@ (5 :> 3)

type_hash(ty) == Keccak4[ty.id]

type_storage_base(ty, category, instance) ==
    MakeTypeStorageBase(category, type_hash(ty), instance)

----------------------------------------------------------------------------
(* The code emitted for Pack and for the global storage operations, run on  *)
(* the machine M = [mem, sto, free, linked].  Every `let` of the emitted    *)
(* code is a LET here; a nested struct is handled by the code emitted by    *)
(* the recursive call of the generator.                                     *)

\* Generator::memory_store_builtin_fun
memory_store_builtin_fun(ty) ==
    CASE type_size(ty) = 1 -> "MemoryStoreU8"
      [] type_size(ty) = 8 -> "MemoryStoreU64"
      [] type_size(ty) = 16 -> "MemoryStoreU128"
      [] type_size(ty) = 32 -> "MemoryStoreU256"
      [] OTHER -> "panic"

\* the field initialisation loop of Generator::pack
RECURSIVE pack_fields(_, _, _, _, _)
pack_fields(mem, st, ptr, srcs, k) ==
    IF k > Len(srcs) THEN mem
    ELSE LET byte_offset == struct_layout[st].offsets[k - 1][1]
         IN  pack_fields(MemoryStore(mem, ptr + byte_offset, srcs[k]), st, ptr, srcs, k + 1)

\* Generator::pack: srcs are the field values in declaration order
pack(M, st, srcs) ==
    LET a == Malloc(M, struct_layout[st].size)
    IN  [M |-> [a.M EXCEPT !.mem = pack_fields(@, st, a.offs, srcs, 1)], ptr |-> a.offs]

\* the bytes of the scalar field i of the value `seed` of struct st
FieldBytes(st, i, seed, n) == [j \in 1..n |-> (seed * 64 + st * 16 + i * 4 + j) % 256]

\* a function body that builds the value `seed` of struct st: it packs the
\* nested structs first and the struct itself last
RECURSIVE BuildValue(_, _, _), BuildFields(_, _, _, _, _)
BuildValue(M, st, seed) ==
    LET r == BuildFields(M, st, seed, 1, <<>>)
    IN  pack(r.M, st, r.srcs)

BuildFields(M, st, seed, i, srcs) ==
    IF i > Len(env_fields[st]) THEN [M |-> M, srcs |-> srcs]
    ELSE LET ty == env_fields[st][i]
         IN  IF is_struct(ty)
             THEN LET v == BuildValue(M, ty.id, seed)
                  IN  BuildFields(v.M, st, seed, i + 1, Append(srcs, WordOf(v.ptr)))
             ELSE BuildFields(M, st, seed, i + 1,
                              Append(srcs, FieldBytes(st, i, seed, type_size(ty))))

\* the word by word copy loop of move_struct_to_storage
RECURSIVE store_words(_, _, _, _, _)
store_words(M, src, dst, byte_offs, size) ==
    IF byte_offs < size
    THEN store_words(
            [M EXCEPT !.sto = AlignedStorageStore(@, dst + byte_offs, mload(M.mem, src + byte_offs))],
            src, dst, byte_offs + 32, size)
    ELSE M

\* Generator::move_struct_to_storage, and its loop over the pointer fields
RECURSIVE move_struct_to_storage(_, _, _, _), store_pointers(_, _, _, _, _)
move_struct_to_storage(M, st, src, dst) ==
    LET layout == struct_layout[st]
        M1 == store_pointers(M, st, src, dst, 1)
        M2 == IF layout.pointer_count < Len(layout.field_order)
              THEN store_words(M1, src, dst,
                               layout.offsets[layout.field_order[layout.pointer_count + 1]][1],
                               layout.size)
              ELSE M1
    IN  Free(M2, src, layout.size)

store_pointers(M, st, src, dst, k) ==
    LET layout == struct_layout[st]
    IN  IF k > layout.pointer_count THEN M
        ELSE LET byte_offs == layout.offsets[layout.field_order[k]][1]
                 ty == layout.offsets[layout.field_order[k]][2]
             IN  IF is_vector(ty) THEN store_pointers(M, st, src, dst, k + 1)
                 ELSE LET hash == type_hash(ty)
                          n == NewLinkedStorageBase(M, hash)
                          linked_dst == n.offs
                          linked_src == ValOf(mload(n.M.mem, src + byte_offs))
                          M1 == move_struct_to_storage(n.M, ty.id, linked_src, linked_dst)
                          M2 == [M1 EXCEPT !.sto =
                                    AlignedStorageStore(@, dst + byte_offs, WordOf(linked_dst))]
                      IN  store_pointers(M2, st, src, dst, k + 1)

\* Generator::exists: the value assigned to the destination
exists(M, ty, addr) ==
    LET base_offset == type_storage_base(ty, RESOURCE_STORAGE_CATEGORY, addr)
    IN  StorageLoadU8(M.sto, base_offset)

\* Generator::move_to; AbortBuiltin ends the execution where it is called
move_to(M, ty, addr, value) ==
    LET base_offset == type_storage_base(ty, RESOURCE_STORAGE_CATEGORY, addr)
        exists_call == StorageLoadU8(M.sto, base_offset)
    IN  IF yul_if(WordOf(exists_call))
        THEN [M |-> M, aborted |-> TRUE, result |-> 0]
        ELSE LET M1 == [M EXCEPT !.sto = AlignedStorageStore(@, base_offset, WordOf(1))]
                 dst == base_offset + RESOURCE_EXISTS_FLAG_SIZE
                 src == value
             IN  [M |-> move_struct_to_storage(M1, ty.id, src, dst),
                  aborted |-> FALSE, result |-> 0]

\* the word by word copy loop of move_struct_to_memory
RECURSIVE load_words(_, _, _, _, _)
load_words(M, src, dst, byte_offs, size) ==
    IF byte_offs < size
    THEN LET field_src_ptr == src + byte_offs
             field_dst_ptr == dst + byte_offs
             M1 == [M EXCEPT !.mem = mstore(@, field_dst_ptr, AlignedStorageLoad(M.sto, field_src_ptr))]
             M2 == [M1 EXCEPT !.sto = AlignedStorageStore(@, field_src_ptr, WordOf(0))]
         IN  load_words(M2, src, dst, byte_offs + 32, size)
    ELSE M

\* Generator::move_struct_to_memory, and its loop over the pointer fields
RECURSIVE move_struct_to_memory(_, _, _), load_pointers(_, _, _, _, _)
move_struct_to_memory(M, st, src) ==
    LET layout == struct_layout[st]
        a == Malloc(M, layout.size)
        dst == a.offs
        M1 == load_pointers(a.M, st, src, dst, 1)
        M2 == IF layout.pointer_count < Len(layout.field_order)
              THEN load_words(M1, src, dst,
                              layout.offsets[layout.field_order[layout.pointer_count + 1]][1],
                              layout.size)
              ELSE M1
    IN  [M |-> M2, dst |-> dst]

load_pointers(M, st, src, dst, k) ==
    LET layout == struct_layout[st]
    IN  IF k > layout.pointer_count THEN M
        ELSE LET byte_offs == layout.offsets[layout.field_order[k]][1]
                 ty == layout.offsets[layout.field_order[k]][2]
             IN  IF is_vector(ty) THEN load_pointers(M, st, src, dst, k + 1)
                 ELSE LET field_src_ptr == src + byte_offs
                          field_dst_ptr == dst + byte_offs
                          linked_src == ValOf(AlignedStorageLoad(M.sto, field_src_ptr))
                          r == move_struct_to_memory(M, ty.id, linked_src)
                          linked_dst == r.dst
                          M1 == [r.M EXCEPT !.mem = mstore(@, field_dst_ptr, WordOf(linked_dst))]
                          M2 == [M1 EXCEPT !.sto = AlignedStorageStore(@, field_src_ptr, WordOf(0))]
                      IN  load_pointers(M2, st, src, dst, k + 1)

\* (mutant) the flag cleared before it is tested
move_from_clear_first(M, ty, addr) ==
    LET base_offset == type_storage_base(ty, RESOURCE_STORAGE_CATEGORY, addr)
        exists_call == StorageLoadU8(M.sto, base_offset)
        M1 == [M EXCEPT !.sto = StorageStoreU8(@, base_offset, 0)]
    IN  IF yul_if(yul_not(WordOf(exists_call)))
        THEN [M |-> M1, aborted |-> TRUE, result |-> 0]
        ELSE LET src == base_offset + RESOURCE_EXISTS_FLAG_SIZE
                 r == move_struct_to_memory(M1, ty.id, src)
             IN  [M |-> r.M, aborted |-> FALSE, result |-> r.dst]

\* Generator::move_from
move_from(M, ty, addr) ==
    LET base_offset == type_storage_base(ty, RESOURCE_STORAGE_CATEGORY, addr)
        exists_call == StorageLoadU8(M.sto, base_offset)
    IN  IF yul_if(yul_not(WordOf(exists_call)))
        THEN [M |-> M, aborted |-> TRUE, result |-> 0]
        ELSE LET M1 == [M EXCEPT !.sto = StorageStoreU8(@, base_offset, 0)]
                 src == base_offset + RESOURCE_EXISTS_FLAG_SIZE
                 r == move_struct_to_memory(M1, ty.id, src)
             IN  [M |-> r.M, aborted |-> FALSE, result |-> r.dst]

\* a pointer into storage (is_storage = 1) or memory (0)
MakePtr(is_storage, offs) == offs * 2 + is_storage

\* Generator::borrow_global
borrow_global(M, ty, addr) ==
    LET base_offset == type_storage_base(ty, RESOURCE_STORAGE_CATEGORY, addr)
        exists_call == StorageLoadU8(M.sto, base_offset)
    IN  IF yul_if(yul_not(WordOf(exists_call)))
        THEN [M |-> M, aborted |-> TRUE, result |-> 0]
        ELSE [M |-> M, aborted |-> FALSE,
              result |-> MakePtr(1, base_offset + RESOURCE_EXISTS_FLAG_SIZE)]

----------------------------------------------------------------------------
(* Specification of the storage operations: one execution of emitted code   *)
(* that performs up to MaxMoves MoveTo and any number of the other          *)
(* operations on the resources (type, address); an abort ends it.           *)

MaxMoves == 2       \* number of MoveTo operations of an execution

ResTypes == {1, 2}
Addrs == {1, 2}
Seeds == {1, 2}

\* struct environments: scalars only, a nested struct between scalars, scalars
\* over two words, and two nested structs of one type
StorageEnvs ==
    { (1 :> <<Prim("u64"), Prim("u8")>>) @@ (2 :> <<Prim("bool")>>),
      (1 :> <<Prim("u8"), StructTy(2), Prim("u128")>>) @@ (2 :> <<Prim("u64"), Prim("bool")>>),
      (1 :> <<Prim("u128"), Prim("u8"), Prim("u128")>>) @@ (2 :> <<Prim("u64")>>),
      (1 :> <<StructTy(2), StructTy(2)>>) @@ (2 :> <<Prim("u8")>>) }

Machine == [mem |-> memory, sto |-> storage, free |-> free_ptr, linked |-> linked_counter]

\* the state after an operation with outcome r
Executed(op, t, a, r) ==
    /\ memory' = r.M.mem
    /\ storage' = r.M.sto
    /\ free_ptr' = r.M.free
    /\ linked_counter' = r.M.linked
    /\ last' = [op |-> op, ty |-> t, addr |-> a, aborted |-> r.aborted, result |-> r.result]
    /\ UNCHANGED layout_vars
    /\ UNCHANGED gen_vars
    /\ UNCHANGED aux_vars
    /\ UNCHANGED fun_vars

\* Operation::Pack of the value and Operation::MoveTo
MoveTo(t, a, seed) ==
    /\ ~last.aborted
    /\ moves < MaxMoves
    /\ LET v == BuildValue(Machine, t, seed)
           r == move_to(v.M, StructTy(t), a, v.ptr)
       IN  /\ Executed("move_to", t, a, r)
           /\ live' = IF r.aborted THEN live ELSE [live EXCEPT ![<<t, a>>] = seed]
    /\ moves' = moves + 1

\* Operation::MoveFrom
MoveFrom(t, a) ==
    /\ ~last.aborted
    /\ LET r == move_from(Machine, StructTy(t), a)
       IN  /\ Executed("move_from", t, a, r)
           /\ live' = IF r.aborted THEN live ELSE [live EXCEPT ![<<t, a>>] = 0]
    /\ UNCHANGED moves

\* Operation::Exists
Exists(t, a) ==
    /\ ~last.aborted
    /\ Executed("exists", t, a,
                [M |-> Machine, aborted |-> FALSE, result |-> exists(Machine, StructTy(t), a)])
    /\ UNCHANGED <<live, moves>>

\* Operation::BorrowGlobal
BorrowGlobal(t, a) ==
    /\ ~last.aborted
    /\ Executed("borrow_global", t, a, borrow_global(Machine, StructTy(t), a))
    /\ UNCHANGED <<live, moves>>

InitStorage ==
    /\ env_fields \in {e \in StorageEnvs :
                          \A st \in DOMAIN e : \A i \in 1..Len(e[st]) :
                              memory_store_builtin_fun(e[st][i]) # "panic"}
    /\ struct_layout = [st \in DOMAIN env_fields |-> compute_struct_layout(env_fields[st])]
    /\ GenIdle
    /\ memory = <<>>
    /\ storage = <<>>
    /\ free_ptr = USED_MEM
    /\ linked_counter = <<>>
    /\ last = [op |-> "none", ty |-> 0, addr |-> 0, aborted |-> FALSE, result |-> 0]
    /\ live = [r \in ResTypes \X Addrs |-> 0]
    /\ moves = 0
    /\ AuxIdle
    /\ FunIdle

NextStorage ==
    \/ \E t \in ResTypes, a \in Addrs, seed \in Seeds : MoveTo(t, a, seed)
    \/ \E t \in ResTypes, a \in Addrs : MoveFrom(t, a)
    \/ \E t \in ResTypes, a \in Addrs : Exists(t, a)
    \/ \E t \in ResTypes, a \in Addrs : BorrowGlobal(t, a)

SpecStorage == InitStorage /\ [][NextStorage]_vars

----------------------------------------------------------------------------
(* Translation of a function: Generator::function and Generator::bytecode.  *)
(* A bytecode is [op, dest, srcs, l1, l2]: its operation, destination and   *)
(* source locals, and the labels of Label, Jump (l1) and Branch (l1 = if_t, *)
(* l2 = if_f).  The emitted Yul is kept as a tree of statements.            *)

Bc(op, dest, srcs, l1, l2) == [op |-> op, dest |-> dest, srcs |-> srcs, l1 |-> l1, l2 |-> l2]

\* Yul expressions: a variable, mload(add($locals, offs)), a literal, a call
Var(t, i) == [e |-> "var", t |-> t, i |-> i]
Mload(offs) == [e |-> "mload", offs |-> offs]
Const(v) == [e |-> "const", v |-> v]
CallE(f, args) == [e |-> "call", f |-> f, args |-> args]

\* Yul statements
AssignS(lhs, rhs) == [k |-> "assign", lhs |-> lhs, rhs |-> rhs]
LetS(lhs, rhs) == [k |-> "let", lhs |-> lhs, rhs |-> rhs]
MstoreS(offs, val) == [k |-> "mstore", offs |-> offs, val |-> val]
BlockS(body) == [k |-> "block", body |-> body]
SwitchS(cond, zero, other) == [k |-> "switch", cond |-> cond, zero |-> zero, other |-> other]
ExprS(rhs) == [k |-> "expr", rhs |-> rhs]
LeaveS == [k |-> "leave"]

\* Generator::collect_borrowed_locals: BTreeMap::insert replaces the position
\* of a local that is already in the map
RECURSIVE collect_borrowed_locals(_, _, _, _)
collect_borrowed_locals(bcs, k, mem_pos, map) ==
    IF k > Len(bcs) THEN map
    ELSE IF bcs[k].op = "BorrowLoc"
         THEN collect_borrowed_locals(bcs, k + 1, mem_pos + 1,
                                      (bcs[k].srcs[1] :> mem_pos) @@ map)
         ELSE collect_borrowed_locals(bcs, k + 1, mem_pos, map)

\* Generator::local_ptr: the offset of the slot from $locals
local_ptr(bl, idx) == bl[idx] * WORD_SIZE

\* (mutant) every local read as a stack variable
local_on_stack(bl, l) == Var("local", l)

\* the closure `local` of Generator::bytecode
local(bl, l) == IF l \in DOMAIN bl THEN Mload(local_ptr(bl, l)) ELSE Var("local", l)

locals(bl, ls) == [i \in 1..Len(ls) |-> local(bl, ls[i])]

\* Generator::assign
assign(bl, dest, src) ==
    IF dest \in DOMAIN bl THEN MstoreS(local_ptr(bl, dest), src)
    ELSE AssignS(<<Var("local", dest)>>, src)

\* the statements of Generator::move_call
move_call_emit(bl, dest, fun, args) ==
    LET call_str == CallE(fun, args)
    IN  CASE Len(dest) = 0 -> <<ExprS(call_str)>>
          [] Len(dest) = 1 -> <<assign(bl, dest[1], call_str)>>
          [] OTHER ->
               IF \E i \in 1..Len(dest) : dest[i] \in DOMAIN bl
               THEN LET temp_names == [i \in 1..Len(dest) |->
                                          IF dest[i] \in DOMAIN bl THEN Var("d", i - 1)
                                          ELSE Var("local", dest[i])]
                        relocated == SelectSeq([i \in 1..Len(dest) |-> i],
                                               LAMBDA i : dest[i] \in DOMAIN bl)
                    IN  <<BlockS(<<LetS(temp_names, call_str)>> \o
                                 [j \in 1..Len(relocated) |->
                                     assign(bl, dest[relocated[j]], temp_names[relocated[j]])])>>
               ELSE <<AssignS([i \in 1..Len(dest) |-> Var("local", dest[i])], call_str)>>

\* (mutant) a Ret that leaves without freeing $locals
ret_emit_without_free(bl, results, has_flow) ==
    [i \in 1..Len(results) |-> AssignS(<<Var("result", i - 1)>>, local(bl, results[i]))]
    \o (IF has_flow THEN <<LeaveS>> ELSE <<>>)

\* the statements of the Ret case of Generator::bytecode
ret_emit(bl, results, has_flow) ==
    [i \in 1..Len(results) |-> AssignS(<<Var("result", i - 1)>>, local(bl, results[i]))]
    \o (IF DOMAIN bl # {}
        THEN <<ExprS(CallE("Free", <<Var("locals", 0), Const(Cardinality(DOMAIN bl) * WORD_SIZE)>>))>>
        ELSE <<>>)
    \o (IF has_flow THEN <<LeaveS>> ELSE <<>>)

\* Generator::bytecode: the statements emitted for the bytecode bc
bytecode(bl, label_map, bc, has_flow) ==
    CASE bc.op = "Jump" -> <<AssignS(<<Var("block", 0)>>, Const(label_map[bc.l1]))>>
      [] bc.op = "Branch" ->
           <<SwitchS(local(bl, bc.srcs[1]), label_map[bc.l2], label_map[bc.l1])>>
      [] bc.op = "Assign" -> <<assign(bl, bc.dest[1], local(bl, bc.srcs[1]))>>
      [] bc.op = "Load" -> <<AssignS(<<local(bl, bc.dest[1])>>, Const(1))>>
      [] bc.op = "Ret" -> ret_emit(bl, bc.srcs, has_flow)
      [] bc.op = "Abort" -> <<ExprS(CallE("Abort", <<local(bl, bc.srcs[1])>>))>>
      [] bc.op = "Function" -> move_call_emit(bl, bc.dest, "callee", locals(bl, bc.srcs))
      [] bc.op = "Pack" ->
           <<BlockS(<<LetS(<<Var("mem", 0)>>, CallE("Malloc", <<>>))>> \o
                    [i \in 1..Len(bc.srcs) |->
                        ExprS(CallE("MemoryStore", <<Var("mem", 0), local(bl, bc.srcs[i])>>))] \o
                    <<assign(bl, bc.dest[1], Var("mem", 0))>>)>>
      [] bc.op = "Unpack" ->
           [i \in 1..Len(bc.dest) |->
               assign(bl, bc.dest[i], CallE("MemoryLoad", <<local(bl, bc.srcs[1])>>))]
           \o <<ExprS(CallE("Free", <<local(bl, bc.srcs[1])>>))>>
      [] bc.op = "Exists" ->
           <<assign(bl, bc.dest[1],
                    CallE("StorageLoadU8",
                          <<CallE("MakeTypeStorageBase", <<local(bl, bc.srcs[1])>>)>>))>>
      [] bc.op = "MoveFrom" ->
           <<BlockS(<<LetS(<<Var("base_offset", 0)>>,
                           CallE("MakeTypeStorageBase", <<local(bl, bc.srcs[1])>>)),
                      BlockS(<<LetS(<<Var("src", 0)>>, Var("base_offset", 0)),
                               LetS(<<Var("dst", 0)>>, CallE("Malloc", <<>>)),
                               assign(bl, bc.dest[1], Var("dst", 0))>>)>>)>>
      [] bc.op = "BorrowGlobal" ->
           <<BlockS(<<LetS(<<Var("base_offset", 0)>>,
                           CallE("MakeTypeStorageBase", <<local(bl, bc.srcs[1])>>)),
                      assign(bl, bc.dest[1], CallE("MakePtr", <<Var("base_offset", 0)>>))>>)>>
      [] bc.op = "BorrowLoc" ->
           <<AssignS(<<Var("local", bc.dest[1])>>,
                     CallE("MakePtr", <<Const(local_ptr(bl, bc.srcs[1]))>>))>>
      [] bc.op = "BorrowField" ->
           <<AssignS(<<local(bl, bc.dest[1])>>,
                     CallE("IndexPtr", <<CallE("LoadU256", <<local(bl, bc.srcs[1])>>)>>))>>
      [] bc.op = "ReadRef" ->
           <<AssignS(<<local(bl, bc.dest[1])>>, CallE("Load", <<local(bl, bc.srcs[1])>>))>>
      [] bc.op = "WriteRef" ->
           <<ExprS(CallE("Store", <<local(bl, bc.srcs[1]), local(bl, bc.srcs[2])>>))>>
      [] bc.op = "Add" ->
           <<AssignS(<<local(bl, bc.dest[1])>>, CallE("Add", locals(bl, bc.srcs)))>>
      [] OTHER -> <<>>

\* StacklessControlFlowGraph::new_forward: a block starts at the first
\* bytecode, at the label of every jump or branch destination and after every
\* jump, branch, return and abort; the basic blocks are numbered from 2 on in
\* the order of their offsets, 0 and 1 being the dummy entry and exit blocks
DUMMY_ENTRANCE == 0
DUMMY_EXIT == 1

is_branch(bc) == bc.op \in {"Jump", "Branch", "Ret", "Abort"}

branch_dests(bc) ==
    CASE bc.op = "Jump" -> {bc.l1}
      [] bc.op = "Branch" -> {bc.l1, bc.l2}
      [] OTHER -> {}

label_offset(bcs, l) == CHOOSE k \in 1..Len(bcs) : bcs[k].op = "Label" /\ bcs[k].l1 = l

block_starts(bcs) ==
    {1} \cup {label_offset(bcs, l) : l \in UNION {branch_dests(bcs[k]) : k \in 1..Len(bcs)}}
        \cup {k + 1 : k \in {j \in 1..(Len(bcs) - 1) : is_branch(bcs[j])}}

\* the id of the block that starts at the offset
block_at(bcs, offset) == DUMMY_EXIT + Cardinality({st \in block_starts(bcs) : st <= offset})

new_forward(bcs) ==
    LET starts == SortedSeq(block_starts(bcs))
    IN  [j \in 1..Len(starts) |->
            LET upper == IF j < Len(starts) THEN starts[j + 1] - 1 ELSE Len(bcs)
                bc == bcs[upper]
            IN  [id |-> DUMMY_EXIT + j, lower |-> starts[j], upper |-> upper,
                 successors |->
                    CASE bc.op \in {"Jump", "Branch"} ->
                           {block_at(bcs, label_offset(bcs, l)) : l \in branch_dests(bc)}
                      [] bc.op \in {"Ret", "Abort"} -> {DUMMY_EXIT}
                      [] OTHER -> IF upper < Len(bcs) THEN {block_at(bcs, upper + 1)}
                                  ELSE {DUMMY_EXIT}]]

\* Generator::get_actual_entry_block: the successor of the dummy entry block
get_actual_entry_block(cfg) == cfg[1].id

\* Generator::compute_label_map
compute_label_map(cfg, bcs) ==
    LET labelled == {j \in 1..Len(cfg) : bcs[cfg[j].lower].op = "Label"}
    IN  [l \in {bcs[cfg[j].lower].l1 : j \in labelled} |->
            cfg[CHOOSE j \in labelled : bcs[cfg[j].lower].l1 = l].id]

\* the loop `for offs in *lower..*upper + 1` over the bytecodes of a block:
\* for each bytecode the comment naming it and the statements emitted for it
block_code(bl, label_map, bcs, b, has_flow) ==
    [i \in 1..(b.upper - b.lower + 1) |->
        [offs |-> b.lower + i - 1,
         stmts |-> bytecode(bl, label_map, bcs[b.lower + i - 1], has_flow)]]

\* the body that Generator::function emits for the target, with the borrowed
\* locals bl that collect_borrowed_locals has computed for it
function_body(tgt, bl) ==
    LET cfg == new_forward(tgt.code)
        entry_bb == get_actual_entry_block(cfg)
        label_map == compute_label_map(cfg, tgt.code)
        straight == \A b \in cfg[entry_bb - DUMMY_EXIT].successors :
                        b \in {DUMMY_ENTRANCE, DUMMY_EXIT}
        keys == SortedSeq(DOMAIN bl)
    IN  [params |-> [i \in 1..tgt.parameter_count |-> Var("local", i - 1)],
         results |-> [i \in 1..tgt.return_count |-> Var("result", i - 1)],
         locals |-> SelectSeq([i \in 1..(tgt.local_count - tgt.parameter_count) |->
                                  Var("local", tgt.parameter_count + i - 1)],
                              LAMBDA v : v.i \notin DOMAIN bl),
         malloc |-> IF DOMAIN bl # {}
                    THEN <<LetS(<<Var("locals", 0)>>,
                                CallE("Malloc", <<Const(Cardinality(DOMAIN bl) * WORD_SIZE)>>))>>
                    ELSE <<>>,
         param_init |-> IF DOMAIN bl # {}
                        THEN LET ps == SelectSeq(keys, LAMBDA idx : idx < tgt.parameter_count)
                             IN  [i \in 1..Len(ps) |->
                                     MstoreS(local_ptr(bl, ps[i]), Var("local", ps[i]))]
                        ELSE <<>>,
         has_flow |-> ~straight,
         entry |-> entry_bb,
         body |-> IF straight
                  THEN block_code(bl, label_map, tgt.code, cfg[entry_bb - DUMMY_EXIT], FALSE)
                  ELSE <<>>,
         cases |-> IF straight THEN <<>>
                   ELSE [j \in 1..Len(cfg) |->
                            [id |-> cfg[j].id,
                             body |-> block_code(bl, label_map, tgt.code, cfg[j], TRUE)]]]

----------------------------------------------------------------------------
(* Execution of the emitted function.  The state st of an execution holds   *)
(* the function-level variables (vars), the variables of the blocks entered *)
(* (scopes, innermost last), the slots of $locals (mem), a log of the       *)
(* result assignments and of the calls of Free, and its status: "invalid"   *)
(* when a statement is not Yul (an assignment to a load expression, a       *)
(* declaration of a name that is visible, a use of an undeclared name).     *)

ScopeOf(st, v) ==
    LET js == {j \in 1..Len(st.scopes) : v \in DOMAIN st.scopes[j]}
    IN  IF js = {} THEN 0 ELSE CHOOSE j \in js : \A i \in js : i <= j

Visible(st, v) == ScopeOf(st, v) > 0 \/ v \in DOMAIN st.vars

Get(st, v) == IF ScopeOf(st, v) > 0 THEN st.scopes[ScopeOf(st, v)][v] ELSE st.vars[v]

Set(st, v, val) ==
    IF ScopeOf(st, v) > 0
    THEN [st EXCEPT !.scopes[ScopeOf(st, v)] = (v :> val) @@ @]
    ELSE [st EXCEPT !.vars = (v :> val) @@ @]

\* the i-th value returned by a call
CallResult(i) == 10 + i

\* the n values of an expression (a declaration without a value gives every
\* variable the value 0, written here as the literal 0)
Eval(st, ex, n) ==
    CASE ex.e = "var" -> [i \in 1..n |-> IF Visible(st, ex) THEN Get(st, ex) ELSE 0]
      [] ex.e = "mload" -> [i \in 1..n |-> IF ex.offs \in DOMAIN st.mem THEN st.mem[ex.offs] ELSE 0]
      [] ex.e = "const" -> [i \in 1..n |-> ex.v]
      [] ex.e = "call" -> [i \in 1..n |-> CallResult(i)]

\* is every variable read by the expression declared
Declared(st, ex) == ex.e = "var" => Visible(st, ex)

RECURSIVE SetAll(_, _, _, _)
SetAll(st, lhs, vals, i) ==
    IF i > Len(lhs) THEN st
    ELSE SetAll(LET st1 == Set(st, lhs[i], vals[i])
                IN  IF lhs[i].t = "result"
                    THEN [st1 EXCEPT !.log = Append(@, [ev |-> "result", i |-> lhs[i].i, v |-> vals[i]])]
                    ELSE st1,
                lhs, vals, i + 1)

Invalid(st) == [st EXCEPT !.status = "invalid"]

RECURSIVE ExecStmts(_, _, _)
RECURSIVE ExecStmt(_, _)
ExecStmts(st, stmts, k) ==
    IF k > Len(stmts) \/ st.status # "running" THEN st
    ELSE ExecStmts(ExecStmt(st, stmts[k]), stmts, k + 1)

ExecStmt(st, s) ==
    CASE s.k = "assign" ->
           IF \/ \E i \in 1..Len(s.lhs) : s.lhs[i].e # "var" \/ ~Visible(st, s.lhs[i])
              \/ ~Declared(st, s.rhs)
           THEN Invalid(st)
           ELSE SetAll(st, s.lhs, Eval(st, s.rhs, Len(s.lhs)), 1)
      [] s.k = "let" ->
           IF (\E i \in 1..Len(s.lhs) : Visible(st, s.lhs[i])) \/ ~Declared(st, s.rhs)
           THEN Invalid(st)
           ELSE LET vals == Eval(st, s.rhs, Len(s.lhs))
                    new == [v \in {s.lhs[i] : i \in 1..Len(s.lhs)} |->
                               vals[CHOOSE i \in 1..Len(s.lhs) : s.lhs[i] = v]]
                IN  IF st.scopes = <<>> THEN [st EXCEPT !.vars = new @@ @]
                    ELSE [st EXCEPT !.scopes[Len(st.scopes)] = new @@ @]
      [] s.k = "mstore" ->
           IF ~Declared(st, s.val) THEN Invalid(st)
           ELSE [st EXCEPT !.mem = (s.offs :> Eval(st, s.val, 1)[1]) @@ @]
      [] s.k = "block" ->
           LET st1 == ExecStmts([st EXCEPT !.scopes = Append(@, <<>>)], s.body, 1)
           IN  [st1 EXCEPT !.scopes = SubSeq(@, 1, Len(@) - 1)]
      [] s.k = "switch" ->
           IF ~Declared(st, s.cond) THEN Invalid(st)
           ELSE Set(st, Var("block", 0),
                    IF Eval(st, s.cond, 1)[1] = 0 THEN s.zero ELSE s.other)
      [] s.k = "expr" ->
           CASE s.rhs.f = "Free" /\ s.rhs.args[1] = Var("locals", 0) ->
                  [st EXCEPT !.log = Append(@, [ev |-> "free", i |-> 0, v |-> s.rhs.args[2].v])]
             [] s.rhs.f = "Abort" -> [st EXCEPT !.status = "aborted"]
             [] OTHER -> st
      [] s.k = "leave" -> [st EXCEPT !.status = "returned"]

----------------------------------------------------------------------------
(* Specification of function translation: a function with parameter 0 and   *)
(* locals 1, 2, 3 is translated and its emitted code is executed, one       *)
(* bytecode's statements at a time, next to the bytecode itself.  The       *)
(* function starts with up to MaxBorrows BorrowLoc of locals 0, 1, 2 into   *)
(* local 3, followed by an instruction under test in one of four control    *)
(* flow shapes.                                                             *)

MaxBorrows == 2     \* number of BorrowLoc instructions of a function

BorrowSeqs ==
    {[i \in 1..Len(ss) |-> Bc("BorrowLoc", <<3>>, <<ss[i]>>, 0, 0)] :
        ss \in SeqsUpTo({0, 1, 2}, MaxBorrows)}

\* the instructions under test
Probes ==
    {Bc(op, <<d>>, <<sr>>, 0, 0) :
        op \in {"Assign", "Add", "ReadRef", "BorrowField", "Pack", "Exists",
                "MoveFrom", "BorrowGlobal"},
        d \in {1, 2}, sr \in {0, 1}}
    \cup {Bc("Load", <<d>>, <<>>, 0, 0) : d \in {1, 2}}
    \cup {Bc("Unpack", <<1, 2>>, <<0>>, 0, 0), Bc("WriteRef", <<>>, <<3, 1>>, 0, 0),
          Bc("Nop", <<>>, <<>>, 0, 0)}
    \cup {Bc("Function", ds, <<0>>, 0, 0) : ds \in {<<>>, <<1>>, <<1, 2>>, <<2, 1>>}}

Label(l) == Bc("Label", <<>>, <<>>, l, 0)
Jump(l) == Bc("Jump", <<>>, <<>>, l, 0)
Branch(if_t, if_f, cond) == Bc("Branch", <<>>, <<cond>>, if_t, if_f)
Ret(results) == Bc("Ret", <<>>, results, 0, 0)
Abort(c) == Bc("Abort", <<>>, <<c>>, 0, 0)

\* straight line; a conditional whose else branch falls through into the
\* join; a loop whose head is entered by falling through; a conditional
\* whose blocks all end in Ret or Abort
Shapes(p) ==
    { <<p, Ret(<<1>>)>>,
      <<Branch(1, 2, 0), Label(1), p, Jump(3), Label(2), p, Label(3), Ret(<<1>>)>>,
      <<p, Label(1), Branch(2, 3, 0), Label(2), Jump(1), Label(3), Ret(<<1>>)>>,
      <<Branch(1, 2, 0), Label(1), p, Ret(<<1>>), Label(2), Abort(0)>> }

Targets ==
    {[parameter_count |-> 1, local_count |-> 4, return_count |-> 1, code |-> b \o sh] :
        b \in BorrowSeqs, sh \in UNION {Shapes(p) : p \in Probes}}

\* Generator::function for the target
function_emit ==
    /\ emitted = <<>>
    /\ borrowed_locals' = collect_borrowed_locals(target.code, 1, 0, <<>>)
    /\ emitted' = function_body(target, borrowed_locals')
    /\ UNCHANGED <<target, run>>
    /\ UNCHANGED <<layout_vars, gen_vars, machine_vars, aux_vars>>

\* a call of the emitted function with the argument a: the declarations and
\* the initialisation of $locals and $block that precede the bytecodes
enter(a) ==
    /\ emitted # <<>>
    /\ run = <<>>
    /\ LET st0 == [status |-> "running",
                   vars |-> [v \in {emitted.params[i] : i \in 1..Len(emitted.params)}
                                     \cup {emitted.results[i] : i \in 1..Len(emitted.results)}
                                |-> IF v.t = "local" THEN a ELSE 0],
                   scopes |-> <<>>, mem |-> <<>>, log |-> <<>>,
                   case |-> emitted.entry, idx |-> 1,
                   src_pc |-> 1, src_status |-> "running"]
           prologue == (IF emitted.locals # <<>> THEN <<LetS(emitted.locals, Const(0))>> ELSE <<>>)
                       \o emitted.malloc \o emitted.param_init
                       \o (IF emitted.has_flow
                           THEN <<LetS(<<Var("block", 0)>>, Const(emitted.entry))>> ELSE <<>>)
       IN  run' = ExecStmts(st0, prologue, 1)
    /\ UNCHANGED <<target, borrowed_locals, emitted>>
    /\ UNCHANGED <<layout_vars, gen_vars, machine_vars, aux_vars>>

\* the statements under the comment of the bytecode the execution stands at
CurrentGroup ==
    IF emitted.has_flow THEN emitted.cases[run.case - DUMMY_EXIT].body[run.idx]
    ELSE emitted.body[run.idx]

\* the bytecode after the one at offs, when the condition of a Branch is c
src_next(offs, c) ==
    LET bc == target.code[offs]
    IN  CASE bc.op = "Jump" -> label_offset(target.code, bc.l1)
          [] bc.op = "Branch" -> label_offset(target.code, IF c # 0 THEN bc.l1 ELSE bc.l2)
          [] OTHER -> offs + 1

\* one bytecode: the emitted statements run, and the bytecode itself runs
exec_bytecode ==
    /\ run # <<>>
    /\ run.status = "running"
    /\ LET st1 == ExecStmts(run, CurrentGroup.stmts, 1)
           sbc == target.code[run.src_pc]
           c == IF sbc.op = "Branch" THEN Eval(run, local(borrowed_locals, sbc.srcs[1]), 1)[1] ELSE 0
           src == [st1 EXCEPT !.src_pc = IF sbc.op \in {"Ret", "Abort"} THEN @ ELSE src_next(@, c),
                              !.src_status = CASE sbc.op = "Ret" -> "returned"
                                               [] sbc.op = "Abort" -> "aborted"
                                               [] OTHER -> @]
           len == IF emitted.has_flow THEN Len(emitted.cases[run.case - DUMMY_EXIT].body)
                  ELSE Len(emitted.body)
       IN  run' =
             IF src.status # "running" THEN src
             ELSE IF run.idx < len THEN [src EXCEPT !.idx = @ + 1]
             ELSE IF ~emitted.has_flow THEN [src EXCEPT !.status = "returned"]
             ELSE IF Get(src, Var("block", 0)) - DUMMY_EXIT \in 1..Len(emitted.cases)
                  THEN [src EXCEPT !.case = Get(src, Var("block", 0)), !.idx = 1]
                  ELSE [src EXCEPT !.status = "stuck"]
    /\ UNCHANGED <<target, borrowed_locals, emitted>>
    /\ UNCHANGED <<layout_vars, gen_vars, machine_vars, aux_vars>>

InitFun ==
    /\ target \in Targets
    /\ borrowed_locals = <<>>
    /\ emitted = <<>>
    /\ run = <<>>
    /\ env_fields = <<>>
    /\ struct_layout = <<>>
    /\ GenIdle
    /\ MachineIdle
    /\ AuxIdle

NextFun ==
    \/ function_emit
    \/ \E a \in {0, 1} : enter(a)
    \/ exec_bytecode

SpecFun == InitFun /\ [][NextFun]_vars

----------------------------------------------------------------------------
(* The type hashes of a contract: Generator::contract clears type_sig_map,  *)
(* Generator::type_hash records the type under its hash and reports a       *)
(* collision.                                                               *)

MaxHashCalls == 4   \* calls of type_hash over all contracts
Contracts == 2      \* contract modules generated by Generator::objects

\* the types hashed: 1, 4 and 5 collide, 2 collides with none
HashTypes == {StructTy(1), StructTy(2), StructTy(4), StructTy(5)}

Collision(loc, ty, old_ty) ==
    [loc |-> loc, msg |-> "collision of type hash", ty |-> ty, old_ty |-> old_ty]

\* the contract specific state initialised by Generator::contract
contract_init ==
    /\ mi < Contracts
    /\ mi' = mi + 1
    /\ type_sig_map' = <<>>
    /\ UNCHANGED <<yul_log, errors, hashed, native>>
    /\ UNCHANGED <<modules, code, yule_deps, needed_move_functions, done_move_functions,
                   needed_yul_functions, blocks, pc, drained, yul_calls, push_log>>
    /\ UNCHANGED layout_vars
    /\ UNCHANGED machine_vars
    /\ UNCHANGED fun_vars

\* (mutant) the recorded type is read after the insertion, so it never
\* differs from the type hashed
type_hash_insert_compare_after(ty) ==
    /\ mi >= 1
    /\ Len(hashed) < MaxHashCalls
    /\ LET hash == type_hash(ty)
       IN  /\ type_sig_map' = (hash :> ty) @@ type_sig_map
           /\ errors' = IF type_sig_map'[hash] # ty
                        THEN Append(errors, Collision(mi, ty, type_sig_map'[hash]))
                        ELSE errors
    /\ hashed' = Append(hashed, [loc |-> mi, ty |-> ty])
    /\ UNCHANGED <<yul_log, native>>
    /\ UNCHANGED <<modules, code, yule_deps, needed_move_functions, done_move_functions,
                   needed_yul_functions, blocks, pc, mi, drained, yul_calls, push_log>>
    /\ UNCHANGED layout_vars
    /\ UNCHANGED machine_vars
    /\ UNCHANGED fun_vars

\* Generator::type_hash: type_sig_map.insert(hash, ty) returns the type that
\* was recorded under the hash, and a different one is reported
type_hash_insert(ty) ==
    /\ mi >= 1
    /\ Len(hashed) < MaxHashCalls
    /\ LET hash == type_hash(ty)
       IN  /\ type_sig_map' = (hash :> ty) @@ type_sig_map
           /\ errors' = IF hash \in DOMAIN type_sig_map /\ type_sig_map[hash] # ty
                        THEN Append(errors, Collision(mi, ty, type_sig_map[hash]))
                        ELSE errors
    /\ hashed' = Append(hashed, [loc |-> mi, ty |-> ty])
    /\ UNCHANGED <<yul_log, native>>
    /\ UNCHANGED <<modules, code, yule_deps, needed_move_functions, done_move_functions,
                   needed_yul_functions, blocks, pc, mi, drained, yul_calls, push_log>>
    /\ UNCHANGED layout_vars
    /\ UNCHANGED machine_vars
    /\ UNCHANGED fun_vars

InitHash ==
    /\ env_fields = <<>>
    /\ struct_layout = <<>>
    /\ GenIdle
    /\ MachineIdle
    /\ AuxIdle
    /\ FunIdle

NextHash ==
    \/ contract_init
    \/ \E ty \in HashTypes : type_hash_insert(ty)

SpecHash == InitHash /\ [][NextHash]_vars

----------------------------------------------------------------------------
(* The migration code that move_struct_to_storage and move_struct_to_memory *)
(* write, as a sequence of statements: the block of a pointer field         *)
(* [op "linked", offs, ty, decls, body], the copy of a word                 *)
(* [op "word", offs] and the allocation [op "malloc", size]; next to it the *)
(* diagnostics reported. decls are the `let` statements of the block in the *)
(* order written, each with the variables its initialiser reads. destroy    *)
(* writes [op "field", offs, ty, decls, body] and [op "free", src, size].   *)

MaxMigrations == 3  \* storage operations generated

\* ctx.env.error(&self.contract_loc, "vectors not yet implemented")
VectorError == [loc |-> mi, msg |-> "vectors not yet implemented"]

\* (mutant) a vector field skipped without a diagnostic
report_vector_silent(rest) == rest

\* a vector field: the diagnostic, and `continue`
report_vector(rest) == [code |-> rest.code, errs |-> <<VectorError>> \o rest.errs]

\* the word by word copy loops
RECURSIVE word_copies(_, _)
word_copies(byte_offs, size) ==
    IF byte_offs < size
    THEN <<[op |-> "word", offs |-> byte_offs]>> \o word_copies(byte_offs + 32, size)
    ELSE <<>>

remaining_words(layout) ==
    IF layout.pointer_count < Len(layout.field_order)
    THEN word_copies(layout.offsets[layout.field_order[layout.pointer_count + 1]][1], layout.size)
    ELSE <<>>

\* `let name := init`, where init reads the variables in reads
Decl(name, reads) == [name |-> name, reads |-> reads]

\* Generator::move_struct_to_storage and its loop over the pointer fields
RECURSIVE move_struct_to_storage_emit(_, _, _), store_pointers_emit(_, _, _, _)
move_struct_to_storage_emit(st, src, dst) ==
    LET ptrs == store_pointers_emit(st, src, dst, 1)
    IN  [code |-> ptrs.code \o remaining_words(struct_layout[st]), errs |-> ptrs.errs]

store_pointers_emit(st, src, dst, k) ==
    LET layout == struct_layout[st]
    IN  IF k > layout.pointer_count THEN [code |-> <<>>, errs |-> <<>>]
        ELSE LET byte_offs == layout.offsets[layout.field_order[k]][1]
                 ty == layout.offsets[layout.field_order[k]][2]
                 rest == store_pointers_emit(st, src, dst, k + 1)
             IN  IF is_vector(ty) THEN report_vector(rest)
                 ELSE LET inner == move_struct_to_storage_emit(ty.id, "$linked_src",
                                                               "$linked_dst")
                      IN  [code |-> <<[op |-> "linked", offs |-> byte_offs, ty |-> ty,
                                       decls |-> <<Decl("$linked_dst", {}),
                                                   Decl("$linked_src", {src})>>,
                                       body |-> inner.code]>> \o rest.code,
                           errs |-> inner.errs \o rest.errs]

\* Generator::move_struct_to_memory and its loop over the pointer fields
RECURSIVE move_struct_to_memory_emit(_, _, _), load_pointers_emit(_, _, _, _)
move_struct_to_memory_emit(st, src, dst) ==
    LET ptrs == load_pointers_emit(st, src, dst, 1)
    IN  [code |-> <<[op |-> "malloc", size |-> struct_layout[st].size]>>
                  \o ptrs.code \o remaining_words(struct_layout[st]),
         errs |-> ptrs.errs]

load_pointers_emit(st, src, dst, k) ==
    LET layout == struct_layout[st]
    IN  IF k > layout.pointer_count THEN [code |-> <<>>, errs |-> <<>>]
        ELSE LET byte_offs == layout.offsets[layout.field_order[k]][1]
                 ty == layout.offsets[layout.field_order[k]][2]
                 rest == load_pointers_emit(st, src, dst, k + 1)
             IN  IF is_vector(ty) THEN report_vector(rest)
                 ELSE LET inner == move_struct_to_memory_emit(ty.id, "$linked_src",
                                                              "$linked_dst")
                      IN  [code |-> <<[op |-> "linked", offs |-> byte_offs, ty |-> ty,
                                       decls |-> <<Decl("$linked_src", {src}),
                                                   Decl("$linked_dst", {})>>,
                                       body |-> inner.code]>> \o rest.code,
                           errs |-> inner.errs \o rest.errs]

\* Generator::type_allocates_memory
type_allocates_memory(ty) == is_vector(ty) \/ is_struct(ty)

\* Generator::destroy of a value of type ty held in src, and its loop over
\* the fields of a struct (in the order of the declaration)
RECURSIVE destroy(_, _), destroy_fields(_, _, _)
destroy(ty, src) ==
    IF is_struct(ty)
    THEN destroy_fields(ty.id, src, 1)
             \o <<[op |-> "free", src |-> src, size |-> struct_layout[ty.id].size]>>
    ELSE <<>>

destroy_fields(st, src, k) ==
    IF k > Len(env_fields[st]) THEN <<>>
    ELSE LET field_type == env_fields[st][k]
             rest == destroy_fields(st, src, k + 1)
         IN  IF ~type_allocates_memory(field_type) THEN rest
             ELSE <<[op |-> "field", offs |-> struct_layout[st].offsets[k - 1][1],
                     ty |-> field_type,
                     decls |-> <<Decl("$field_ptr", {src})>>,
                     body |-> destroy(field_type, "$field_ptr")]>> \o rest

\* struct environments with vector fields: at the top, one level down (one and
\* two of them), two levels down, and none
VectorEnvs ==
    { (1 :> <<Prim("u64"), VectorTy, Prim("u8")>>) @@ (2 :> <<Prim("bool")>>)
          @@ (3 :> <<VectorTy>>),
      (1 :> <<StructTy(2), Prim("u64")>>) @@ (2 :> <<VectorTy, Prim("u8")>>)
          @@ (3 :> <<VectorTy, StructTy(2), VectorTy>>),
      (1 :> <<StructTy(2)>>) @@ (2 :> <<Prim("u8"), StructTy(3), VectorTy>>)
          @@ (3 :> <<Prim("u8"), VectorTy>>),
      (1 :> <<StructTy(2), Prim("u8")>>) @@ (2 :> <<Prim("u64")>>)
          @@ (3 :> <<Prim("bool"), StructTy(2)>>) }

\* the generation of a storage operation of struct st: fn is "to_storage" for
\* MoveTo and "to_memory" for MoveFrom
Migration(fn, st) ==
    /\ Len(emitted) < MaxMigrations
    /\ LET r == CASE fn = "to_storage" ->
                          move_struct_to_storage_emit(st, "$src", "$dst")
                     [] fn = "to_memory" ->
                          move_struct_to_memory_emit(st, "$src", "$dst")
                     [] fn = "destroy" ->
                          [code |-> destroy(StructTy(st), "$t0"), errs |-> <<>>]
       IN  /\ emitted' = Append(emitted, [fn |-> fn, st |-> st, code |-> r.code])
           /\ errors' = errors \o r.errs
    /\ UNCHANGED <<yul_log, type_sig_map, hashed, native>>
    /\ UNCHANGED <<target, borrowed_locals, run>>
    /\ UNCHANGED layout_vars
    /\ UNCHANGED gen_vars
    /\ UNCHANGED machine_vars

\* Generator::move_to of a resource of struct st
move_to_emit(st) == Migration("to_storage", st)

\* Generator::move_from of a resource of struct st
move_from_emit(st) == Migration("to_memory", st)

\* the Destroy bytecode of a local of struct st
destroy_emit(st) == Migration("destroy", st)

InitMigrate ==
    /\ env_fields \in VectorEnvs
    /\ struct_layout = [st \in DOMAIN env_fields |-> compute_struct_layout(env_fields[st])]
    /\ GenIdle
    /\ MachineIdle
    /\ AuxIdle
    /\ FunIdle

NextMigrate ==
    \/ \E st \in DOMAIN env_fields : move_to_emit(st)
    \/ \E st \in DOMAIN env_fields : move_from_emit(st)
    \/ \E st \in DOMAIN env_fields : destroy_emit(st)

SpecMigrate == InitMigrate /\ [][NextMigrate]_vars

----------------------------------------------------------------------------
(* The runtime code that callable_functions writes for the callables of a   *)
(* contract module, and a call of the deployed contract with a selector and *)
(* an attached value.  A callable is [fun, selector, payable,               *)
(* parameter_count, return_count]; the runtime code is the sequence of the  *)
(* dummy calls [fun, lets, args, stores].                                   *)

MaxCallables == 2   \* callable functions of the contract module

Selectors == {1, 2}
CallValues == {0, 1}

Callable(f, sel, payable, np, nr) ==
    [fun |-> f, selector |-> sel, payable |-> payable, parameter_count |-> np,
     return_count |-> nr]

\* the callables of a module: functions 1, 2, .. in declaration order
RECURSIVE CallableLists(_)
CallableLists(n) ==
    IF n = 0 THEN {<<>>}
    ELSE CallableLists(n - 1)
         \cup {Append(cs, Callable(n, sel, payable, np, nr)) :
                  cs \in {c \in CallableLists(n - 1) : Len(c) = n - 1},
                  sel \in Selectors, payable \in BOOLEAN, np \in {0, 1}, nr \in {0, 2}}

\* the loop of callable_functions over the callables from the k-th on
RECURSIVE dummy_calls(_, _, _)
dummy_calls(callables, k, counter) ==
    IF k > Len(callables) THEN <<>>
    ELSE LET callable == callables[k]
             n == callable.return_count
         IN  <<[fun |-> callable.fun,
                lets |-> [i \in 1..n |-> counter + i - 1],
                args |-> [i \in 1..callable.parameter_count |-> 100 + counter + i - 1],
                stores |-> [i \in 1..n |-> <<200 + counter + i - 1, counter + i - 1>>]]>>
             \o dummy_calls(callables, k + 1, counter + n)

\* callable_functions: the dummy calls become the runtime code; nothing else
\* is written before them and no diagnostic is reported
callable_functions_emit ==
    /\ emitted = <<>>
    /\ modules # <<>>
    /\ modules[1].callables # <<>>
    /\ emitted' = dummy_calls(modules[1].callables, 1, 0)
    /\ errors' = errors
    /\ UNCHANGED <<yul_log, type_sig_map, hashed, native>>
    /\ UNCHANGED <<target, borrowed_locals, run>>
    /\ UNCHANGED layout_vars
    /\ UNCHANGED gen_vars
    /\ UNCHANGED machine_vars

\* a call of the deployed contract: the runtime code starts at its first
\* statement
invoke(sel, value) ==
    /\ emitted # <<>>
    /\ run = <<>>
    /\ run' = [status |-> "running", selector |-> sel, value |-> value, idx |-> 1,
               log |-> <<>>, sto |-> <<>>]
    /\ UNCHANGED <<target, borrowed_locals, emitted>>
    /\ UNCHANGED layout_vars
    /\ UNCHANGED gen_vars
    /\ UNCHANGED machine_vars
    /\ UNCHANGED aux_vars

\* one dummy call: the arguments are loaded from storage, the body of the
\* function runs, the results are stored
exec_dummy_call ==
    /\ run # <<>>
    /\ run.status = "running"
    /\ IF run.idx > Len(emitted)
       THEN run' = [run EXCEPT !.status = "returned"]
       ELSE LET c == emitted[run.idx]
            IN  run' = [run EXCEPT
                          !.idx = @ + 1,
                          !.log = Append(@, [ev |-> "body", fun |-> c.fun,
                                             args |-> [i \in 1..Len(c.args) |->
                                                          IF c.args[i] \in DOMAIN run.sto
                                                          THEN run.sto[c.args[i]] ELSE 0]]),
                          !.sto = [k \in DOMAIN @ \cup {c.stores[i][1] : i \in 1..Len(c.stores)} |->
                                      IF \E i \in 1..Len(c.stores) : c.stores[i][1] = k
                                      THEN CallResult(1 + CHOOSE i \in 1..Len(c.stores) :
                                                             c.stores[i][1] = k)
                                      ELSE @[k]]]
    /\ UNCHANGED <<target, borrowed_locals, emitted>>
    /\ UNCHANGED layout_vars
    /\ UNCHANGED gen_vars
    /\ UNCHANGED machine_vars
    /\ UNCHANGED aux_vars

InitDispatch ==
    /\ modules \in {<<Module(<<>>, cs)>> : cs \in CallableLists(MaxCallables)}
    /\ code = <<>>
    /\ yule_deps = <<>>
    /\ needed_move_functions = <<>>
    /\ done_move_functions = {}
    /\ needed_yul_functions = {}
    /\ blocks = <<>>
    /\ pc = "callables"
    /\ mi = 1
    /\ drained = 0
    /\ yul_calls = 0
    /\ push_log = <<>>
    /\ env_fields = <<>>
    /\ struct_layout = <<>>
    /\ MachineIdle
    /\ AuxIdle
    /\ FunIdle

NextDispatch ==
    \/ callable_functions_emit
    \/ \E sel \in Selectors, value \in CallValues : invoke(sel, value)
    \/ exec_dummy_call

SpecDispatch == InitDispatch /\ [][NextDispatch]_vars

----------------------------------------------------------------------------
(* The decimal natives (ol_decimal.rs).  A u128 or i128 is the sequence of  *)
(* its 16 bytes, most significant first, an i128 in two's complement; a     *)
(* Decimal is [negative, mant, scale] with the 12 bytes of its 96 bit       *)
(* mantissa.                                                                *)

IntBytes == 16      \* bytes of u128 and i128
MantBytes == 12     \* bytes of the mantissa of a Decimal
MAX_PRECISION == 28 \* the largest scale of a Decimal

ZeroInt == [i \in 1..IntBytes |-> 0]

\* the lowest byte of b that is not 255, or 0 when there is none
CarryStop(b) ==
    IF \A j \in 1..IntBytes : b[j] = 255 THEN 0
    ELSE CHOOSE j \in 1..IntBytes : b[j] # 255 /\ \A k \in (j + 1)..IntBytes : b[k] = 255

\* b + 1, wrapping
wrapping_inc(b) ==
    [j \in 1..IntBytes |-> IF j < CarryStop(b) THEN b[j]
                           ELSE IF j = CarryStop(b) THEN b[j] + 1
                           ELSE 0]

\* the two's complement negation of an i128, wrapping
wrapping_neg(b) == wrapping_inc([j \in 1..IntBytes |-> 255 - b[j]])

is_negative(b) == b[1] >= 128

\* i128::MIN, whose negation overflows
I128_MIN == [i \in 1..IntBytes |-> IF i = 1 THEN 128 ELSE 0]

MoveDecimalType(sign, int, scale) == [sign |-> sign, int |-> int, scale |-> scale]

Panic == [status |-> "panic"]

\* (mutant) a mantissa one byte short
from_i128_with_scale_short(num, scale) ==
    LET neg == is_negative(num)
        mag == IF neg THEN wrapping_neg(num) ELSE num
    IN  IF scale > MAX_PRECISION \/ \E i \in 1..(IntBytes - MantBytes) : mag[i] # 0
        THEN Panic
        ELSE [status |-> "ok",
              dec |-> [negative |-> neg,
                       mant |-> <<0>> \o SubSeq(mag, IntBytes - MantBytes + 2, IntBytes),
                       scale |-> scale]]

\* Decimal::from_i128_with_scale: the sign flag is set for a number below
\* zero, the mantissa is the magnitude; it panics when the scale exceeds
\* MAX_PRECISION or the magnitude 96 bits
from_i128_with_scale(num, scale) ==
    LET neg == is_negative(num)
        mag == IF neg THEN wrapping_neg(num) ELSE num
    IN  IF scale > MAX_PRECISION \/ \E i \in 1..(IntBytes - MantBytes) : mag[i] # 0
        THEN Panic
        ELSE [status |-> "ok",
              dec |-> [negative |-> neg,
                       mant |-> SubSeq(mag, IntBytes - MantBytes + 1, IntBytes),
                       scale |-> scale]]

\* MoveDecimalType::into_decimal; `self.int as i128` keeps the bits, and the
\* multiplication by -1 of i128::MIN panics in a build with overflow checks
\* and wraps in one without
into_decimal(m, overflow_checks) ==
    LET scale_right == m.scale
        signed_int_right == m.int
    IN  IF ~m.sign
        THEN IF signed_int_right = I128_MIN /\ overflow_checks THEN Panic
             ELSE from_i128_with_scale(wrapping_neg(signed_int_right), scale_right)
        ELSE from_i128_with_scale(signed_int_right, scale_right)

\* Decimal::is_sign_positive, Decimal::mantissa().abs() as u128, Decimal::scale
from_decimal(dec) ==
    MoveDecimalType(~dec.negative,
                    [i \in 1..(IntBytes - MantBytes) |-> 0] \o dec.mant,
                    dec.scale)

\* the integers considered: k bytes of value v below zero bytes
Fill(k, v) == [i \in 1..IntBytes |-> IF i > IntBytes - k THEN v ELSE 0]

DecimalInts == {Fill(k, v) : k \in 0..IntBytes, v \in {1, 128, 255}}
DecimalScales == {0, 2, MAX_PRECISION, MAX_PRECISION + 1}

\* m.into_decimal()
into_decimal_call ==
    /\ native # <<>>
    /\ native.stage = "args"
    /\ LET r == into_decimal(native.m, native.overflow_checks)
       IN  native' = IF r.status = "panic" THEN [native EXCEPT !.stage = "panic"]
                     ELSE [native EXCEPT !.stage = "dec", !.dec = r.dec]
    /\ UNCHANGED <<yul_log, errors, type_sig_map, hashed>>
    /\ UNCHANGED layout_vars
    /\ UNCHANGED gen_vars
    /\ UNCHANGED machine_vars
    /\ UNCHANGED fun_vars

\* MoveDecimalType::from_decimal(dec)
from_decimal_call ==
    /\ native # <<>>
    /\ native.stage = "dec"
    /\ native' = [native EXCEPT !.stage = "new_m", !.new_m = from_decimal(native.dec)]
    /\ UNCHANGED <<yul_log, errors, type_sig_map, hashed>>
    /\ UNCHANGED layout_vars
    /\ UNCHANGED gen_vars
    /\ UNCHANGED machine_vars
    /\ UNCHANGED fun_vars

\* new_m.into_decimal()
into_decimal_again ==
    /\ native # <<>>
    /\ native.stage = "new_m"
    /\ LET r == into_decimal(native.new_m, native.overflow_checks)
       IN  native' = IF r.status = "panic" THEN [native EXCEPT !.stage = "panic"]
                     ELSE [native EXCEPT !.stage = "new_dec", !.new_dec = r.dec]
    /\ UNCHANGED <<yul_log, errors, type_sig_map, hashed>>
    /\ UNCHANGED layout_vars
    /\ UNCHANGED gen_vars
    /\ UNCHANGED machine_vars
    /\ UNCHANGED fun_vars

InitDecimal ==
    /\ native \in [fn : {"decimal"}, stage : {"args"}, overflow_checks : BOOLEAN,
                   m : {MoveDecimalType(sign, int, scale) :
                           sign \in BOOLEAN, int \in DecimalInts, scale \in DecimalScales},
                   dec : {<<>>}, new_m : {<<>>}, new_dec : {<<>>}]
    /\ yul_log = <<>>
    /\ errors = <<>>
    /\ type_sig_map = <<>>
    /\ hashed = <<>>
    /\ env_fields = <<>>
    /\ struct_layout = <<>>
    /\ GenIdle
    /\ MachineIdle
    /\ FunIdle

NextDecimal ==
    \/ into_decimal_call
    \/ from_decimal_call
    \/ into_decimal_again

SpecDecimal == InitDecimal /\ [][NextDecimal]_vars

----------------------------------------------------------------------------
(* The native function verify of the VDF. native holds the two counters of  *)
(* proofs and the calls made, each with its arguments and its outcome. The  *)
(* arguments are well typed; v.verify is a function of the vdf crate, and   *)
(* its result is either Ok or Err.                                          *)

MaxVerify == 3  \* calls of native_verify

\* the security parameters of the calls: below, at and above the threshold,
\* and one that is below it after the cast to u16
Securities == {512, 2048, 2049, 66048}

\* the arguments of a call, (challenge, solution, difficulty, security):
\* three, four and five of them
VdfArguments ==
    {<<<<1>>, <<2>>, 100>>}
        \cup {<<<<1>>, <<2>>, 100, security>> : security \in Securities}
        \cup {<<<<1>>, <<2>>, 100, 512, 0>>}

\* (mutant) the threshold checked after the cast of line 62, `security as u16`
above_threshold_as_u16(security) == (security % 65536) > 2048

\* if security > 2048
above_threshold(security) == security > 2048

\* native_verify(arguments), where v.verify returns Ok iff proof_ok
native_verify(arguments, proof_ok) ==
    /\ native # <<>>
    /\ native.fn = "vdf"
    /\ Len(native.calls) < MaxVerify
    /\ native' =
          IF Len(arguments) # 4
          THEN [native EXCEPT
                   !.proof_error_count = @ + 1,
                   !.calls = Append(@, [arguments |-> arguments, status |-> "Err",
                                        major_status |-> "UNREACHABLE",
                                        verified |-> FALSE, return_values |-> <<>>])]
          ELSE LET security == arguments[4]
               IN  IF above_threshold(security)
                   THEN [native EXCEPT
                            !.proof_count = @ + 1,
                            !.proof_error_count = @ + 1,
                            !.calls = Append(@, [arguments |-> arguments, status |-> "Err",
                                                 major_status |-> "UNREACHABLE",
                                                 verified |-> FALSE,
                                                 return_values |-> <<>>])]
                   ELSE [native EXCEPT
                            !.proof_count = @ + 1,
                            !.calls = Append(@, [arguments |-> arguments, status |-> "Ok",
                                                 major_status |-> "EXECUTED",
                                                 verified |-> TRUE,
                                                 return_values |-> <<proof_ok>>])]
    /\ UNCHANGED <<yul_log, errors, type_sig_map, hashed>>
    /\ UNCHANGED layout_vars
    /\ UNCHANGED gen_vars
    /\ UNCHANGED machine_vars
    /\ UNCHANGED fun_vars

InitVdf ==
    /\ native = [fn |-> "vdf", proof_count |-> 0, proof_error_count |-> 0, calls |-> <<>>]
    /\ yul_log = <<>>
    /\ errors = <<>>
    /\ type_sig_map = <<>>
    /\ hashed = <<>>
    /\ env_fields = <<>>
    /\ struct_layout = <<>>
    /\ GenIdle
    /\ MachineIdle
    /\ FunIdle

NextVdf ==
    \E arguments \in VdfArguments, proof_ok \in BOOLEAN : native_verify(arguments, proof_ok)

SpecVdf == InitVdf /\ [][NextVdf]_vars

----------------------------------------------------------------------------
(* The names that the generator makes for functions and types. A string is  *)
(* the sequence of its characters; format! concatenates.                    *)

MaxIdent == 3  \* characters of a Move identifier
MaxNames == 2  \* names made

\* Move identifiers: letters, digits and underscores after a letter
IdentChars == {"f", "_"}
Idents == {str \in UNION {[1..n -> IdentChars] : n \in 1..MaxIdent} : str[1] # "_"}

\* the address and the name of a module
ModuleNames == [addr : {1, 31}, name : Idents]

\* BigUint::to_str_radix(16)
HexDigits == <<"0", "1", "2", "3", "4", "5", "6", "7", "8", "9",
               "a", "b", "c", "d", "e", "f">>

RECURSIVE to_str_radix(_)
to_str_radix(n) ==
    IF n < 16 THEN <<HexDigits[n + 1]>>
    ELSE to_str_radix(n \div 16) \o <<HexDigits[(n % 16) + 1]>>

\* Generator::make_contract_name: format!("A{}_{}", addr, mod_sym)
make_contract_name(module) ==
    <<"A">> \o to_str_radix(module.addr) \o <<"_">> \o module.name

\* the types mangled: primitives, vectors and structs with their instantiation
PrimitiveTy(p) == [kind |-> p]
VectorOf(et) == [kind |-> "vector", et |-> et]
StructInst(module, name, inst) ==
    [kind |-> "struct", module |-> module, name |-> name, inst |-> inst]

\* Generator::mangle_type, mangle_struct and mangle_types
RECURSIVE mangle_type(_), mangle_struct(_), mangle_types(_), join_types(_, _)
mangle_type(ty) ==
    CASE ty.kind = "u8" -> <<"u", "8">>
      [] ty.kind = "u64" -> <<"u", "6", "4">>
      [] ty.kind = "bool" -> <<"b", "o", "o", "l">>
      [] ty.kind = "vector" -> <<"v", "e", "c">> \o mangle_types(<<ty.et>>)
      [] ty.kind = "struct" -> mangle_struct(ty)

mangle_struct(struct_id) ==
    make_contract_name(struct_id.module) \o <<"_">> \o struct_id.name
        \o mangle_types(struct_id.inst)

mangle_types(tys) ==
    IF tys = <<>> THEN <<>>
    ELSE <<"$">> \o join_types(tys, 1) \o <<"$">>

\* tys.iter().map(|ty| self.mangle_type(ty)).join("_")
join_types(tys, k) ==
    IF k = Len(tys) THEN mangle_type(tys[k])
    ELSE mangle_type(tys[k]) \o <<"_">> \o join_types(tys, k + 1)

\* Generator::make_function_name: format!("{}_{}{}", contract, fun_sym, inst)
make_function_name(fun_id) ==
    make_contract_name(fun_id.module) \o <<"_">> \o fun_id.name
        \o mangle_types(fun_id.inst)

\* the instantiations, the functions and the types that names are made for
Insts == {<<>>, <<PrimitiveTy("u8")>>, <<PrimitiveTy("u8"), PrimitiveTy("u64")>>}

FunIds == [module : ModuleNames, name : Idents, inst : Insts]

MangledTypes ==
    {PrimitiveTy(p) : p \in {"u8", "u64", "bool"}}
        \cup {VectorOf(PrimitiveTy(p)) : p \in {"u8", "u64"}}
        \cup {StructInst(module, name, inst) :
                 module \in ModuleNames, name \in Idents,
                 inst \in {<<>>, <<PrimitiveTy("u8")>>}}

\* the name of a function is made
make_function_name_call(fun_id) ==
    /\ Len(emitted) < MaxNames
    /\ emitted' = Append(emitted, [of |-> "fun", id |-> fun_id,
                                   name |-> make_function_name(fun_id)])
    /\ UNCHANGED <<target, borrowed_locals, run>>
    /\ UNCHANGED aux_vars
    /\ UNCHANGED layout_vars
    /\ UNCHANGED gen_vars
    /\ UNCHANGED machine_vars

\* a type is mangled
mangle_type_call(ty) ==
    /\ Len(emitted) < MaxNames
    /\ emitted' = Append(emitted, [of |-> "type", id |-> ty, name |-> mangle_type(ty)])
    /\ UNCHANGED <<target, borrowed_locals, run>>
    /\ UNCHANGED aux_vars
    /\ UNCHANGED layout_vars
    /\ UNCHANGED gen_vars
    /\ UNCHANGED machine_vars

InitMangle ==
    /\ env_fields = <<>>
    /\ struct_layout = <<>>
    /\ GenIdle
    /\ MachineIdle
    /\ AuxIdle
    /\ FunIdle

NextMangle ==
    \/ \E fun_id \in FunIds : make_function_name_call(fun_id)
    \/ \E ty \in MangledTypes : mangle_type_call(ty)

SpecMangle == InitMangle /\ [][NextMangle]_vars

----------------------------------------------------------------------------
(* Claims about function translation (checked under SpecFun) *)

\* the variables and the slots of $locals that an expression reads
RECURSIVE ExprReads(_)
ExprReads(ex) ==
    CASE ex.e \in {"var", "mload"} -> {ex}
      [] ex.e = "const" -> {}
      [] ex.e = "call" -> UNION {ExprReads(ex.args[i]) : i \in 1..Len(ex.args)}

\* the variables and slots that a statement reads, the left sides it assigns
\* and the variables it declares
RECURSIVE StmtReads(_)
StmtReads(s) ==
    CASE s.k \in {"assign", "let", "expr"} -> ExprReads(s.rhs)
      [] s.k = "mstore" -> ExprReads(s.val)
      [] s.k = "switch" -> ExprReads(s.cond)
      [] s.k = "block" -> UNION {StmtReads(s.body[i]) : i \in 1..Len(s.body)}
      [] OTHER -> {}

RECURSIVE StmtAssigns(_)
StmtAssigns(s) ==
    CASE s.k = "assign" -> {s.lhs[i] : i \in 1..Len(s.lhs)}
      [] s.k = "block" -> UNION {StmtAssigns(s.body[i]) : i \in 1..Len(s.body)}
      [] OTHER -> {}

RECURSIVE StmtStores(_)
StmtStores(s) ==
    CASE s.k = "mstore" -> {s.offs}
      [] s.k = "block" -> UNION {StmtStores(s.body[i]) : i \in 1..Len(s.body)}
      [] OTHER -> {}

\* the groups (bytecode, statements) of the emitted function
Groups ==
    {emitted.body[i] : i \in 1..Len(emitted.body)}
    \cup UNION {{emitted.cases[j].body[i] : i \in 1..Len(emitted.cases[j].body)} :
                   j \in 1..Len(emitted.cases)}

GroupReads(g) == UNION {StmtReads(g.stmts[i]) : i \in 1..Len(g.stmts)}
GroupAssigns(g) == UNION {StmtAssigns(g.stmts[i]) : i \in 1..Len(g.stmts)}
GroupStores(g) == UNION {StmtStores(g.stmts[i]) : i \in 1..Len(g.stmts)}

\* the locals a bytecode reads: its sources, but for BorrowLoc, which takes
\* the address of its source
SrcsRead(bc) == IF bc.op = "BorrowLoc" THEN {}
                ELSE {bc.srcs[i] : i \in 1..Len(bc.srcs)}

\* the word of $locals at a byte offset, zero when never stored
MemAt(offs) == IF offs \in DOMAIN run.mem THEN run.mem[offs] ELSE 0

\* C12: in the state-machine form, whenever the loop starts the case of a block
\* the bytecode is about to enter that very block: $block was left equal to the
\* id of the jump target, of the branch taken or of the fall-through block, and
\* that id has a case.
C12_NextBlock ==
    (run # <<>> /\ emitted.has_flow /\ run.idx = 1 /\ run.status \in {"running", "stuck"}) =>
        /\ run.status = "running"
        /\ run.src_status = "running"
        /\ run.case = block_at(target.code, run.src_pc)
        /\ CurrentGroup.offs = run.src_pc

\* C13: no borrowed local is declared in the `let` of the function's locals,
\* and the statements of every bytecode read a borrowed local by a load from
\* its slot and never as a stack variable.
C13_BorrowedInMemory ==
    emitted # <<>> =>
        /\ \A i \in 1..Len(emitted.locals) : emitted.locals[i].i \notin DOMAIN borrowed_locals
        /\ \A g \in Groups :
              /\ \A v \in GroupReads(g) :
                    (v.e = "var" /\ v.t = "local") => v.i \notin DOMAIN borrowed_locals
              /\ \A l \in SrcsRead(target.code[g.offs]) \cap DOMAIN borrowed_locals :
                    Mload(local_ptr(borrowed_locals, l)) \in GroupReads(g)

\* locals 0 and 1 are borrowed, local 2 is assigned from local 1 in a branch
\* whose condition is local 0
C13_Witness ==
    /\ emitted # <<>>
    /\ emitted.has_flow
    /\ DOMAIN borrowed_locals = {0, 1}
    /\ emitted.locals = <<Var("local", 2), Var("local", 3)>>
    /\ \E g \in Groups : /\ target.code[g.offs] = Bc("Assign", <<2>>, <<1>>, 0, 0)
                         /\ Mload(local_ptr(borrowed_locals, 1)) \in GroupReads(g)

\* the instructions whose destinations C14 is about
WritesDest(bc) ==
    \/ bc.op \in {"Assign", "Load", "Add", "ReadRef", "BorrowField", "Pack", "Unpack",
                  "Exists", "MoveFrom", "BorrowGlobal"}
    \/ bc.op = "Function" /\ Len(bc.dest) = 1

\* C14: for an instruction with a borrowed destination the emitted statements
\* store to the slot of the local, assign no stack variable of that local and
\* have no load expression on a left side.
C14_DestIsStore ==
    emitted # <<>> =>
        \A g \in Groups :
            WritesDest(target.code[g.offs]) =>
                \A i \in 1..Len(target.code[g.offs].dest) :
                    LET d == target.code[g.offs].dest[i]
                    IN  d \in DOMAIN borrowed_locals =>
                            /\ local_ptr(borrowed_locals, d) \in GroupStores(g)
                            /\ Var("local", d) \notin GroupAssigns(g)
                            /\ \A v \in GroupAssigns(g) : v.e # "mload"

\* is the bytecode a call with several destinations, one of them borrowed
MultiDestCall(bc) ==
    /\ bc.op = "Function"
    /\ Len(bc.dest) >= 2
    /\ \E i \in 1..Len(bc.dest) : bc.dest[i] \in DOMAIN borrowed_locals

\* C15: when the statements of a call with several destinations, one of them
\* borrowed, have run, every borrowed destination's slot and every other
\* destination's function-level variable holds its result of the call.
C15_AllDestsHoldResults ==
    [][(/\ run # <<>>
        /\ run.status = "running"
        /\ MultiDestCall(target.code[CurrentGroup.offs])) =>
           LET dest == target.code[CurrentGroup.offs].dest
           IN  /\ run'.status \in {"running", "returned"}
               /\ \A i \in 1..Len(dest) :
                     IF dest[i] \in DOMAIN borrowed_locals
                     THEN /\ local_ptr(borrowed_locals, dest[i]) \in DOMAIN run'.mem
                          /\ run'.mem[local_ptr(borrowed_locals, dest[i])] = CallResult(i)
                     ELSE run'.vars[Var("local", dest[i])] = CallResult(i)]_vars

\* C16: a function with borrowed locals that has returned has assigned all its
\* results (a borrowed local read from its slot) and then, as the last thing,
\* freed $locals once with the byte size it allocated.
C16_FreeBeforeLeave ==
    (run # <<>> /\ run.status = "returned" /\ DOMAIN borrowed_locals # {}) =>
        LET n == target.return_count
            ret == target.code[run.src_pc]
        IN  /\ run.src_status = "returned"
            /\ Len(run.log) = n + 1
            /\ \A i \in 1..n :
                  /\ run.log[i].ev = "result"
                  /\ run.log[i].i = i - 1
                  /\ run.log[i].v = IF ret.srcs[i] \in DOMAIN borrowed_locals
                                    THEN MemAt(local_ptr(borrowed_locals, ret.srcs[i]))
                                    ELSE run.vars[Var("local", ret.srcs[i])]
            /\ run.log[n + 1].ev = "free"
            /\ run.log[n + 1].v = emitted.malloc[1].rhs.args[1].v

\* a function in state-machine form with two borrowed locals has returned the
\* value of the borrowed local 1
C16_Witness ==
    /\ run # <<>>
    /\ run.status = "returned"
    /\ emitted.has_flow
    /\ DOMAIN borrowed_locals = {1, 2}
    /\ run.log = <<[ev |-> "result", i |-> 0, v |-> run.mem[local_ptr(borrowed_locals, 1)]],
                   [ev |-> "free", i |-> 0, v |-> 2 * WORD_SIZE]>>
    /\ run.mem[local_ptr(borrowed_locals, 1)] = CallResult(1)

----------------------------------------------------------------------------
(* Claims about the storage operations (checked under SpecStorage) *)

\* the fields of the struct st at the memory address p, in declaration order:
\* the bytes of a scalar field, the fields of a nested struct
RECURSIVE ReadStruct(_, _, _)
ReadStruct(mem, st, p) ==
    [i \in 1..Len(env_fields[st]) |->
        LET ty == env_fields[st][i]
            byte_offset == struct_layout[st].offsets[i - 1][1]
        IN  IF is_struct(ty)
            THEN ReadStruct(mem, ty.id, ValOf(mload(mem, p + byte_offset)))
            ELSE [j \in 1..type_size(ty) |-> Rd(mem, p + byte_offset + j - 1)]]

\* the fields of the value `seed` of struct st
RECURSIVE ValueOf(_, _)
ValueOf(st, seed) ==
    [i \in 1..Len(env_fields[st]) |->
        LET ty == env_fields[st][i]
        IN  IF is_struct(ty) THEN ValueOf(ty.id, seed)
            ELSE FieldBytes(st, i, seed, type_size(ty))]

\* the existence flag of (t, a) as the emitted code reads it
FlagRead(sto, t, a) ==
    StorageLoadU8(sto, type_storage_base(StructTy(t), RESOURCE_STORAGE_CATEGORY, a))

\* C1: a MoveFrom of a resource that a MoveTo published returns a memory image
\* field-wise equal to the value moved and leaves the existence flag reading
\* false, and the flag reads false before a MoveTo of an unpublished resource.
C1_RoundTrip ==
    [][/\ (last'.op = "move_from" /\ live[<<last'.ty, last'.addr>>] # 0) =>
              /\ ~last'.aborted
              /\ ReadStruct(memory', last'.ty, last'.result)
                     = ValueOf(last'.ty, live[<<last'.ty, last'.addr>>])
              /\ FlagRead(storage', last'.ty, last'.addr) = 0
       /\ (last'.op = "move_to" /\ moves' # moves /\ live[<<last'.ty, last'.addr>>] = 0) =>
              FlagRead(storage, last'.ty, last'.addr) = 0]_vars

\* C2: a MoveTo to a (type, address) that holds a resource (no MoveFrom since
\* the last MoveTo) aborts and writes no storage word.
C2_SecondMoveToAborts ==
    [][(last'.op = "move_to" /\ moves' # moves /\ live[<<last'.ty, last'.addr>>] # 0) =>
           /\ last'.aborted
           /\ storage' = storage
           /\ linked_counter' = linked_counter]_vars

\* C3: a MoveFrom or BorrowGlobal of a (type, address) whose existence flag is
\* unset aborts with the storage and the memory as they were: no flag is
\* written, no word zeroed, nothing allocated.
C3_AbortBeforeWrites ==
    [][(/\ last'.op \in {"move_from", "borrow_global"}
        /\ \/ live[<<last'.ty, last'.addr>>] = 0
           \/ FlagRead(storage, last'.ty, last'.addr) = 0) =>
           /\ last'.aborted
           /\ storage' = storage
           /\ memory' = memory
           /\ free_ptr' = free_ptr
           /\ linked_counter' = linked_counter]_vars

\* a MoveFrom of a never published resource has aborted while another
\* resource is in storage
C3_Witness ==
    /\ last.op = "move_from"
    /\ last.aborted
    /\ live[<<last.ty, last.addr>>] = 0
    /\ \E r \in ResTypes \X Addrs : live[r] # 0
    /\ storage # <<>>

\* C4: Exists returns true exactly when the last MoveTo or MoveFrom of the
\* (type, address) that did not abort was a MoveTo.
C4_ExistsIffPublished ==
    last.op = "exists" => ((last.result # 0) <=> (live[<<last.ty, last.addr>>] # 0))

----------------------------------------------------------------------------
(* Claims about the struct layout (checked under SpecLayout) *)

RECURSIVE SumSizes(_, _)
SumSizes(fields, k) ==
    IF k > Len(fields) THEN 0 ELSE type_size(fields[k]) + SumSizes(fields, k + 1)

Computed(st) == struct_layout[st] # NoLayout

\* C5: the size of every computed layout is the sum of the sizes of the struct's
\* fields; every struct- or vector-typed field and the first non-pointer field
\* lie at a byte offset that is a multiple of the word size (the assertions of
\* move_struct_to_storage and move_struct_to_memory)
C5_LayoutSizeAndAlignment ==
    \A st \in DOMAIN env_fields :
        Computed(st) =>
            LET l == struct_layout[st]
                fs == env_fields[st]
            IN  /\ l.size = SumSizes(fs, 1)
                /\ \A i \in 1..Len(fs) :
                       s_or_v(fs[i]) => l.offsets[i - 1][1] % WORD_SIZE = 0
                /\ \A k \in 1..l.pointer_count :
                       k <= Len(l.field_order) =>
                           l.offsets[l.field_order[k]][1] % WORD_SIZE = 0
                /\ l.pointer_count < Len(l.field_order) =>
                       l.offsets[l.field_order[l.pointer_count + 1]][1] % WORD_SIZE = 0

C5_Witness ==
    /\ Computed(1)
    /\ env_fields[1] = <<Prim("u8"), StructTy(2), Prim("address")>>
    /\ struct_layout[1].size = 53

\* C6: in every computed layout the first pointer_count entries of field_order
\* are exactly the struct- or vector-typed fields, every later entry is a
\* scalar field, and field_order is a permutation of the declared fields
C6_PointersFirst ==
    \A st \in DOMAIN env_fields :
        Computed(st) =>
            LET l == struct_layout[st]
                fs == env_fields[st]
            IN  /\ Len(l.field_order) = Len(fs)
                /\ {l.field_order[k] : k \in 1..Len(l.field_order)} = {i - 1 : i \in 1..Len(fs)}
                /\ l.pointer_count <= Len(l.field_order)
                /\ \A k \in 1..Len(l.field_order) :
                       s_or_v(fs[l.field_order[k] + 1]) <=> k <= l.pointer_count

C6_Witness ==
    /\ Computed(1)
    /\ env_fields[1] = <<Prim("u128"), VectorTy, StructTy(2)>>
    /\ struct_layout[1].field_order = <<1, 2, 0>>
    /\ struct_layout[1].pointer_count = 2

----------------------------------------------------------------------------
(* Claims about the generator (checked under Spec) *)

\* how often f is defined in a code block
DefCount(b, f) == Cardinality({k \in 1..Len(b.defs) : b.defs[k] = f})

\* C7: when generation has finished, every function called from the code of
\* a code block has exactly one definition in that code block
C7_CalledFunctionsDefinedOnce ==
    pc = "done" =>
        \A k \in 1..Len(blocks) : \A h \in blocks[k].calls : DefCount(blocks[k], h) = 1

\* the longest call list of a function, plus one
DrainWeight ==
    1 + (CHOOSE n \in 0..2 :
            /\ \A f \in DOMAIN code : Len(code[f].calls) <= n
            /\ \E f \in DOMAIN code : Len(code[f].calls) = n)

\* a measure that bounds the iterations left for the drain loop
DrainMeasure ==
    DrainWeight * Cardinality(Funs \ done_move_functions) + Len(needed_move_functions)

InDrain == pc \in {"end_deploy", "end_runtime"}

\* C8: the drain loop of end_code_block terminates (every iteration
\* decreases DrainMeasure, a natural number), and it translates at most as
\* many functions as are reachable from the entry points of the code block
C8_DrainTerminates ==
    [][/\ (InDrain /\ needed_move_functions # <<>>) =>
              (DrainMeasure' < DrainMeasure /\ DrainMeasure' >= 0)
       /\ InDrain' =>
              drained' <= Cardinality(ReachFrom(code, blocks'[Len(blocks')].entries))]_vars

C8_Witness ==
    /\ pc = "end_deploy"
    /\ needed_move_functions = <<>>
    /\ drained = 2
    /\ code[1].calls = <<2, 3>>
    /\ code[2].calls = <<3>>
    /\ code[3].calls = <<2, 3>>

\* C9: no move_call pushes a function that is in done_move_functions at that
\* time, and done_move_functions only grows
C9_DoneNeverPushed ==
    [][/\ \A k \in 1..Len(push_log') : ~push_log'[k].done
       /\ done_move_functions \subseteq done_move_functions']_vars

C9_Witness ==
    /\ pc = "end_runtime"
    /\ Len(push_log) = 2
    /\ push_log[1].fun = 2
    /\ push_log[2].fun = 3
    /\ done_move_functions = {1, 2}
    /\ code[1].calls = <<2, 3>>
    /\ code[2].calls = <<1, 2>>

----------------------------------------------------------------------------
(* Claims about the builtin closure (checked under SpecYul) *)

DepEdges == {<<a, b>> \in YulFuns \X YulFuns : b \in yule_deps[a]}

\* C10: the builtin definitions emitted at the end of a code block are closed
\* under yule_deps, needed_yul_functions is closed after every
\* call_builtin_str, and call_builtin_str ends after at most one invocation
\* of need_yul_function per dependency edge, plus one
C10_YulClosed ==
    /\ \A y \in needed_yul_functions : yule_deps[y] \subseteq needed_yul_functions
    /\ yul_calls <= 1 + Cardinality(DepEdges)
    /\ pc = "yul_emitted" =>
           /\ Range(blocks[1].yul_defs) = needed_yul_functions
           /\ \A y \in Range(blocks[1].yul_defs) : yule_deps[y] \subseteq Range(blocks[1].yul_defs)

C10_Witness ==
    /\ pc = "yul_emitted"
    /\ yule_deps = (1 :> {2}) @@ (2 :> {1, 3}) @@ (3 :> {3})
    /\ blocks[1].yul_defs = <<1, 2, 3>>
    /\ yul_calls = 5

\* the builtins reachable from the set S through yule_deps
RECURSIVE DepClosure(_)
DepClosure(S) ==
    LET T == S \cup UNION {yule_deps[y] : y \in S}
    IN  IF T = S THEN S ELSE DepClosure(T)

----------------------------------------------------------------------------
(* Claim about the storage left by MoveFrom (checked under SpecStorage) *)

\* the storage word that holds the existence flag of (t, a)
FlagKey(t, a) == type_storage_base(StructTy(t), RESOURCE_STORAGE_CATEGORY, a) \div WORD_SIZE

----------------------------------------------------------------------------
(* Claims about type hashes (checked under SpecHash) *)

\* the diagnostics of a contract that name the type
CollisionsOf(loc, ty) ==
    {k \in 1..Len(errors) : /\ errors[k].loc = loc
                            /\ errors[k].msg = "collision of type hash"
                            /\ ty \in {errors[k].ty, errors[k].old_ty}}

\* C17: once type_hash was called for a type after a different type of the
\* same hash was hashed in the same contract, the diagnostics hold a collision
\* error of that contract naming the type; and every collision error names
\* two different types of one hash, both hashed in its contract, so hashing
\* one type repeatedly reports nothing.
C17_CollisionReported ==
    /\ \A i \in 1..Len(hashed) :
          (\E j \in 1..(i - 1) : /\ hashed[j].loc = hashed[i].loc
                                 /\ hashed[j].ty # hashed[i].ty
                                 /\ type_hash(hashed[j].ty) = type_hash(hashed[i].ty))
              => CollisionsOf(hashed[i].loc, hashed[i].ty) # {}
    /\ \A k \in 1..Len(errors) :
          /\ errors[k].ty # errors[k].old_ty
          /\ type_hash(errors[k].ty) = type_hash(errors[k].old_ty)
          /\ \E i, j \in 1..Len(hashed) :
                /\ j < i
                /\ hashed[i] = [loc |-> errors[k].loc, ty |-> errors[k].ty]
                /\ hashed[j] = [loc |-> errors[k].loc, ty |-> errors[k].old_ty]

\* the second contract hashed A, B, A with A and B colliding: both the call
\* for B and the second call for A reported
C17_Witness ==
    /\ mi = 2
    /\ hashed = <<[loc |-> 2, ty |-> StructTy(1)], [loc |-> 2, ty |-> StructTy(4)],
                  [loc |-> 2, ty |-> StructTy(1)]>>
    /\ errors = <<Collision(2, StructTy(4), StructTy(1)), Collision(2, StructTy(1), StructTy(4))>>

----------------------------------------------------------------------------
(* Claims about the migration code (checked under SpecMigrate) *)

\* the vector fields that the migration of struct st meets, at any depth
RECURSIVE VectorFields(_), VectorFieldsFrom(_, _)
VectorFields(st) == VectorFieldsFrom(st, 1)

VectorFieldsFrom(st, i) ==
    IF i > Len(env_fields[st]) THEN 0
    ELSE (CASE is_vector(env_fields[st][i]) -> 1
            [] is_struct(env_fields[st][i]) -> VectorFields(env_fields[st][i].id)
            [] OTHER -> 0)
         + VectorFieldsFrom(st, i + 1)

RECURSIVE VectorsMet(_)
VectorsMet(k) ==
    IF k = 0 THEN 0
    ELSE (IF emitted[k].fn = "destroy" THEN 0 ELSE VectorFields(emitted[k].st))
         + VectorsMet(k - 1)

\* no statement of the code is at the offset of a vector field of the struct,
\* nor, in the block of a nested struct, of a vector field of that struct
RECURSIVE NoVectorCode(_, _)
NoVectorCode(st, stmts) ==
    \A k \in 1..Len(stmts) :
        stmts[k].op \in {"linked", "word"} =>
            /\ \A f \in DOMAIN struct_layout[st].offsets :
                  is_vector(struct_layout[st].offsets[f][2])
                      => struct_layout[st].offsets[f][1] # stmts[k].offs
            /\ stmts[k].op = "linked" =>
                  /\ is_struct(stmts[k].ty)
                  /\ NoVectorCode(stmts[k].ty.id, stmts[k].body)

\* C19: the diagnostics are one "vectors not yet implemented" for every vector
\* field that a generated move_struct_to_storage or move_struct_to_memory met,
\* at any depth, and the code written has no statement for a vector field.
C19_VectorsReported ==
    /\ Len(errors) = VectorsMet(Len(emitted))
    /\ \A k \in 1..Len(errors) : errors[k].msg = "vectors not yet implemented"
    /\ \A k \in 1..Len(emitted) : NoVectorCode(emitted[k].st, emitted[k].code)

\* struct 1 holds struct 2, which holds a vector and struct 3 with a vector:
\* its move to storage reported twice and wrote code for the struct fields
C19_Witness ==
    /\ env_fields[2] = <<Prim("u8"), StructTy(3), VectorTy>>
    /\ Len(emitted) = 2
    /\ emitted[1].fn = "to_storage" /\ emitted[1].st = 1
    /\ emitted[2].fn = "to_memory" /\ emitted[2].st = 1
    /\ Len(errors) = 4
    /\ Len(emitted[1].code) = 1
    /\ emitted[1].code[1].op = "linked"
    /\ \E k \in 1..Len(emitted[1].code[1].body) : emitted[1].code[1].body[k].op = "linked"

\* the names that the `let` statements decls declare
DeclNames(decls) == {decls[k].name : k \in DOMAIN decls}

\* the blocks of stmts, written where the variables of outer are declared in
\* enclosing blocks, declare none of them again, and no `let` reads the
\* variable it declares; so at every depth
RECURSIVE WellScoped(_, _)
WellScoped(stmts, outer) ==
    \A k \in 1..Len(stmts) :
        stmts[k].op \in {"linked", "field"} =>
            /\ \A d \in DOMAIN stmts[k].decls :
                  /\ stmts[k].decls[d].name \notin outer
                  /\ stmts[k].decls[d].name \notin stmts[k].decls[d].reads
            /\ WellScoped(stmts[k].body, outer \cup DeclNames(stmts[k].decls))

\* C27: in the code that move_struct_to_storage, move_struct_to_memory and
\* destroy wrote, no block declares $linked_src, $linked_dst or $field_ptr
\* that an enclosing block declares, and no declaration reads the variable
\* it declares, at every nesting depth.
C27_WellScoped ==
    \A k \in 1..Len(emitted) : WellScoped(emitted[k].code, {})

----------------------------------------------------------------------------
(* Claim about the names of functions and types (checked under SpecMangle) *)

\* C28: make_function_name and mangle_type are injective: two functions, or
\* two types, that differ have different names, also with underscores in the
\* names of modules, functions and structs.
C28_MangleInjective ==
    \A i, j \in 1..Len(emitted) :
        (emitted[i].of = emitted[j].of /\ emitted[i].name = emitted[j].name)
            => emitted[i].id = emitted[j].id

----------------------------------------------------------------------------
(* Claim about the native verify of the VDF (checked under SpecVdf) *)

\* a call that the claim says is refused
Refused(call) == Len(call.arguments) # 4 \/ call.arguments[4] > 2048

\* the calls among the first k that are refused
RECURSIVE RefusedCalls(_)
RefusedCalls(k) ==
    IF k = 0 THEN 0
    ELSE (IF Refused(native.calls[k]) THEN 1 ELSE 0) + RefusedCalls(k - 1)

----------------------------------------------------------------------------
(* Claim about the #[create] functions (checked under SpecCreate) *)

\* C20: when optional_creator has run for a contract module with more than one
\* #[create] function, it has reported "multiple #[create] functions" for that
\* module; for a module with at most one it has reported nothing.
C20_MultipleCreateReported ==
    [][(pc = "creator" /\ pc' = "end_deploy") =>
           IF Len(modules[mi].creators) > 1
           THEN \E k \in (Len(errors) + 1)..Len(errors') :
                    /\ errors'[k].msg = "multiple #[create] functions"
                    /\ errors'[k].loc[1] = mi
           ELSE errors' = errors]_vars

\* the second module declares functions 3, 1 and 2 as #[create], in this
\* order, after a first module with a single one: one diagnostic, at function 1
C20_Witness ==
    /\ pc = "end_deploy"
    /\ mi = 2
    /\ modules[1].creators = <<2>>
    /\ modules[2].creators = <<3, 1, 2>>
    /\ errors = <<[loc |-> <<2, 1>>, msg |-> "multiple #[create] functions"]>>

----------------------------------------------------------------------------
(* Claims about the dispatch of callables (checked under SpecDispatch) *)

\* C21: in a call with a non-zero attached value whose selector is the one of
\* a non-payable callable, the body of that callable does not run and no
\* argument is loaded for it: the call ends aborted.
C21_NonPayableAborts ==
    (run # <<>> /\ run.value # 0) =>
        \A i \in 1..Len(modules[1].callables) :
            LET c == modules[1].callables[i]
            IN  (c.selector = run.selector /\ ~c.payable) =>
                    /\ \A k \in 1..Len(run.log) : run.log[k].fun # c.fun
                    /\ run.status # "returned"

\* C22: when the runtime code of a module with two callables of one selector
\* has been written, a diagnostic names both functions.
C22_SelectorCollisionReported ==
    emitted # <<>> =>
        \A i, j \in 1..Len(modules[1].callables) :
            (i < j /\ modules[1].callables[i].selector = modules[1].callables[j].selector) =>
                \E k \in 1..Len(errors) :
                    /\ modules[1].callables[i].fun \in errors[k].funs
                    /\ modules[1].callables[j].fun \in errors[k].funs

----------------------------------------------------------------------------
(* Claims about the decimal natives (checked under SpecDecimal) *)

\* does the integer fit the 96 bit mantissa of a Decimal
FitsDecimal(int) == \A i \in 1..(IntBytes - MantBytes) : int[i] = 0

\* C23: for sign true, scale 0 and an integer of at most 96 bits the
\* conversion to a Decimal succeeds, the conversion back gives the same
\* integer, and converting that again gives a Decimal of the same value.
C23_IntRoundTrip ==
    (native # <<>> /\ native.m.sign /\ native.m.scale = 0 /\ FitsDecimal(native.m.int)) =>
        /\ native.stage # "panic"
        /\ native.stage \in {"new_m", "new_dec"} => native.new_m.int = native.m.int
        /\ native.stage = "new_dec" =>
              /\ ~native.new_dec.negative
              /\ native.new_dec.scale = 0
              /\ [i \in 1..(IntBytes - MantBytes) |-> 0] \o native.new_dec.mant = native.m.int

\* Decimal::MAX, 2^96 - 1, has gone there and back twice
C23_Witness ==
    /\ native # <<>>
    /\ native.stage = "new_dec"
    /\ native.m = MoveDecimalType(TRUE, Fill(MantBytes, 255), 0)
    /\ native.new_m.int = Fill(MantBytes, 255)
    /\ native.new_dec.mant = [i \in 1..MantBytes |-> 255]

\* C30: for an integer of at most 96 bits and a scale of at most
\* MAX_PRECISION, the conversion to a Decimal and back keeps the sign, also
\* for the integer 0 with sign false.
C30_SignRoundTrip ==
    (native # <<>> /\ FitsDecimal(native.m.int) /\ native.m.scale <= MAX_PRECISION) =>
        /\ native.stage # "panic"
        /\ native.stage \in {"new_m", "new_dec"} => native.new_m.sign = native.m.sign

----------------------------------------------------------------------------
(* Claim about the code blocks (checked under Spec) *)

\* C24: whenever a code block is begun, the deployment block or the runtime
\* block of any contract, needed_move_functions and needed_yul_functions are
\* empty, so both assertions of begin_code_block hold.
C24_BeginAssertionsHold ==
    /\ pc \in {"begin_deploy", "begin_runtime"} =>
          (needed_move_functions = <<>> /\ needed_yul_functions = {})
    /\ pc # "panic"

----------------------------------------------------------------------------
(* Claims about the slots of borrowed locals (checked under SpecFun) *)

\* C25: after collect_borrowed_locals the slot positions of the borrowed
\* locals are pairwise distinct and are exactly 0 .. n-1 for n borrowed locals.
C25_SlotsConsecutive ==
    emitted # <<>> =>
        /\ \A l1, l2 \in DOMAIN borrowed_locals :
              l1 # l2 => borrowed_locals[l1] # borrowed_locals[l2]
        /\ {borrowed_locals[l] : l \in DOMAIN borrowed_locals}
              = 0..(Cardinality(DOMAIN borrowed_locals) - 1)

\* C26: the slot of every borrowed local ends inside the region that the
\* function allocates for $locals at its entry.
C26_SlotsInsideRegion ==
    (emitted # <<>> /\ DOMAIN borrowed_locals # {}) =>
        \A l \in DOMAIN borrowed_locals :
            local_ptr(borrowed_locals, l) + WORD_SIZE <= emitted.malloc[1].rhs.args[1].v

====
